---- MODULE Spec2Model ----
(***************************************************************************)
(* Model of the AI agent deployment service:                               *)
(*   - app.py: the Flask front-end, its task record file and the worker    *)
(*     thread run_agent_deployment;                                        *)
(*   - deploy_ai_agent.py: the deploy subprocess (main), its phases call   *)
(*     by call, and its monitor loop monitor_instance_and_get_results;     *)
(*   - deploy_lambda.py: main and cleanup_resources.                       *)
(* Spec follows one task from /launch to the end of its worker thread,     *)
(* SpecMonitor the monitor from its entry, SpecLog its log tailing,        *)
(* SpecLambda one run of deploy_lambda, SpecShared concurrent subprocesses *)
(* on the shared repository and role.                                      *)
(* Time is counted in units of 5 seconds.                                  *)
(***************************************************************************)
EXTENDS Integers, Sequences, FiniteSets, TLC

(***************************************************************************)
(* Bounds of the model.                                                    *)
(***************************************************************************)
\* the monitor deadline, in time units (259200 s in the code, scaled down)
TimeoutUnits == 30
\* longest duration of the provider calls of one poll cycle, in time units
MaxCallDelay == 6
\* longest remote log content, in characters
MaxLog == 4
\* number of tasks that run the deploy subprocess concurrently
NumTasks == 2
\* largest number drawn for INSTANCE_NAME (9999 in the code)
MaxName == 1001
\* longest results directory whose records take every combination of values
MaxLen == 3
\* longest results directory with one fixed content per length
MaxTotal == 15
\* largest page number asked for
MaxPage == 3
\* largest created_at of the records of a short results directory
MaxStamp == 2
\* most hotlinks in the new log lines of one poll
MaxHotlinks == 2
\* most polls of a build that is followed while it stays in progress
MaxPolls == 3

(***************************************************************************)
(* Program constants, in time units of 5 seconds.                          *)
(***************************************************************************)
PollSleep == 6
ErrorBackoff == 2
RetrySleep == 1
ProbePeriod == 12
ProbeWindow == 6
PropagationDelay == 2
RetryAttempts == 6
\* random.randint(1000, 9999): the smallest number of INSTANCE_NAME
MinName == 1000
\* time.sleep(30) between two polls of the build, in time units
BuildPollSleep == 6

(***************************************************************************)
(* JSON values of the task record.  Every value has the same shape so that *)
(* values of different kinds can be compared.                              *)
(***************************************************************************)
None == [k |-> "none", n |-> 0, s |-> ""]
Str(s) == [k |-> "str", n |-> 0, s |-> s]
Num(n) == [k |-> "int", n |-> n, s |-> ""]
\* datetime.now().isoformat() taken at clock value n
Ts(n) == [k |-> "ts", n |-> n, s |-> ""]
\* the parsed result object, identified by its status field
Obj(s) == [k |-> "obj", n |-> 0, s |-> s]

\* results/<task_id>.json does not exist
NoFile == [k |-> "nofile", n |-> 0, s |-> ""]

\* the file just opened with mode 'w': empty until json.dump has written
Truncated == [k |-> "truncated", n |-> 0, s |-> ""]

\* no request answered yet, and the 404 answer {"error": "Task not found"}
NoResponse == [k |-> "none", n |-> 0, s |-> ""]
NotFound == [k |-> "404", n |-> 0, s |-> "Task not found"]

\* dict assignment d[key] = v
Put(d, key, v) == [x \in (DOMAIN d) \cup {key} |-> IF x = key THEN v ELSE d[x]]

\* dict.update(kwargs)
Update(d, kwargs) ==
    [x \in (DOMAIN d) \cup (DOMAIN kwargs) |->
        IF x \in DOMAIN kwargs THEN kwargs[x] ELSE d[x]]

\* the empty dict and one-entry dicts of keyword arguments
EmptyDict == [x \in {} |-> None]
Kw(key, v) == [x \in {key} |-> v]

Prompts == {"check price"}
Scrapers == {"", "insights"}
TaskId == "uuid-1"

\* the task_data dict built by launch_agent
InitialTask(prompt, scraper, now) ==
    [x \in {"id", "prompt", "scraper", "status", "created_at", "started_at", "completed_at"} |->
        CASE x = "id" -> Str(TaskId)
          [] x = "prompt" -> Str(prompt)
          [] x = "scraper" -> IF scraper = "" THEN None ELSE Str(scraper)
          [] x = "status" -> Str("queued")
          [] x = "created_at" -> Ts(now)
          [] x = "started_at" -> None
          [] x = "completed_at" -> None]

\* update_task_status(task_id, status, **kwargs) applied to the loaded dict
UpdateTaskStatus(task, status, kwargs, now) ==
    LET t1 == Put(task, "status", Str(status))
        t2 == IF status = "deploying" /\ "started_at" \notin DOMAIN t1
                 THEN Put(t1, "started_at", Ts(now))
              ELSE IF status \in {"completed", "failed"} /\ "completed_at" \notin DOMAIN t1
                 THEN Put(t1, "completed_at", Ts(now))
              ELSE t1
    IN Update(t2, kwargs)

\* load_task / save_task around UpdateTaskStatus: nothing happens without a record
UpdatedFile(file, status, kwargs, now) ==
    IF file = NoFile THEN file ELSE UpdateTaskStatus(file, status, kwargs, now)

\* mutant: a nonzero return code leaves the status as it is
FinalStatusKept(rc) == IF rc = 0 THEN "completed" ELSE "deploying"

\* the status the worker writes from the subprocess return code
FinalStatus(rc) == IF rc = 0 THEN "completed" ELSE "failed"

\* mutant: the request asks for up to two instances
LaunchRequestTwo == [MinCount |-> 1, MaxCount |-> 2]

\* the counts of the run_instances request
LaunchRequest == [MinCount |-> 1, MaxCount |-> 1]

\* one run_instances call and whether the provider accepted it
LaunchCall(accepted) ==
    [MinCount |-> LaunchRequest.MinCount, MaxCount |-> LaunchRequest.MaxCount,
     accepted |-> accepted]

\* an image tag: its prefix up to and including the first "-", and the rest
Tag(prefix, hash) == [prefix |-> prefix, hash |-> hash]

\* IMAGE_TAG = f"runtime-{get_runtime_hash()}"
IMAGE_TAG == Tag("runtime-", "h1")

\* the tags an image of the repository may carry
ImageTags == {IMAGE_TAG, Tag("runtime-", "h0"), Tag("runtime-", "h2"), Tag("", "latest")}

\* tag.startswith('runtime-')
StartsWithRuntime(tag) == tag.prefix = "runtime-"

VARIABLES
    task_file,       \* content of results/<task_id>.json, or NoFile
    clock,           \* number of timestamps taken so far
    worker_pc,       \* position of the worker thread run_agent_deployment
    proc_pc,         \* position of the deploy subprocess
    return_code,     \* exit code of the deploy subprocess, -1 while it runs
    instance_state,  \* provider-reported state of the EC2 instance
    s3_result,       \* status field of the result object, "absent" if none
    elapsed,         \* time.time() - start_time of the monitor
    state,           \* the monitor's local variable state
    attempt,         \* the monitor's retry counter
    mon_result,      \* the value returned by the monitor
    local_result,    \* content of result-<INSTANCE_NAME>.json
    call_failed,     \* the last provider call of the monitor raised an error
    term_probes,     \* outcomes of the probes of the terminated path
    term_sleeps,     \* number of 5-second sleeps of the terminated path
    always_ready,    \* at every poll so far: instance running, result present, no call failed
    last_probe,      \* the probe decision of the previous cycle with state running
    detected,        \* the hotlinks found in the new log lines of the latest poll
    log_object,      \* content of the remote log object
    last_console_length, \* the monitor's log cursor
    printed,         \* the log lines printed by the monitor
    log_seen,        \* what the log fetches returned so far and what was taken from them
    log_pc,          \* position of the log-tailing run
    ecr_repo,        \* the ECR repository ai-executor-ec2 exists
    ecr_images,      \* tags of the images in the repository
    registry_check,  \* outcome of list_images in build_docker_image_if_needed
    had_image,       \* the registry held IMAGE_TAG when list_images was called
    build_status,    \* buildStatus of the CodeBuild job, "none" before start_build
    created,         \* the per-run resources this run has created
    delete_attempted, \* the per-run resources whose deletion this run has called
    prune_list,      \* outcome of list_images in cleanup_old_images
    prune_attempted, \* image tags cleanup_old_images has called batch_delete_image on
    prune_failed,    \* image tags whose batch_delete_image raised
    iam_role,        \* the role ai-executor-ec2-role exists
    iam_profile,     \* the instance profile: "absent", "created" or "linked"
    calls,           \* the phases in the order of their first provider call
    completed,       \* the phases whose function has returned
    exit_cause,      \* the site whose failure ended the subprocess, "none" otherwise
    instance_tags,   \* the tags of the launched instance
    launches,        \* the run_instances calls made so far: their counts and outcome
    build_polls,     \* the polls of the build made so far and the time slept between them
    lam_pc,          \* position of deploy_lambda.main, "off" when it is not run
    role_name,       \* main's local role_name: "None" or the name of the role
    lam_created,     \* the resources this run of deploy_lambda has created
    lam_attempted,   \* the resources whose deletion cleanup_resources has called
    lam_failed,      \* the resources whose deletion raised
    lam_cleanups,    \* number of times cleanup_resources was entered
    lam_exit,        \* the way the try block of main was left, "none" before
    sh_pc,           \* per concurrent task: its position in build and create_iam_role
    sh_repo,         \* the shared ECR repository exists
    sh_image,        \* the shared repository holds the image with IMAGE_TAG
    sh_role,         \* the shared IAM role exists
    sh_profile,      \* the shared instance profile: "absent" or "linked"
    sh_role_age,     \* time units since the shared role was created, capped
    sh_sleep,        \* per task: time units left of its time.sleep(10)
    sh_returned_age, \* per task: age of the role when create_iam_role returned
    sh_exit,         \* per task: the error that ended it, "none" otherwise
    st_pc,           \* position of each concurrent subprocess in staging
    st_name,         \* the number each subprocess drew for INSTANCE_NAME, 0 before
    st_bucket,       \* per key of the results bucket: the task whose upload it holds, 0 if none
    q_loaded,        \* the dict load_task returned to update_task_status, NoFile if None
    q_acked,         \* /launch has answered 202 with the task id
    q_resp,          \* the last answer of GET /status/<task_id>
    ls_pc,           \* GET /status: "off", "request" or "answered"
    ls_files,        \* the records of the results directory, in glob order
    ls_req,          \* the query parameters of the request
    ls_tasks,        \* the local list tasks after filtering and sorting
    ls_resp,         \* the answer: the page and its pagination block
    drv_pc,          \* position of automation_task.py's main block, "off" when not run
    drv_args,        \* its command line: --task-id, --instance and --scraper
    result,          \* its local result, NoDriverResult while it is None
    drv_attempts,    \* number of times the upload block was entered
    drv_put,         \* the upload_file calls made: their key and whether they succeeded
    drv_exit         \* the exit code of the script, -1 while it runs

\* the staging of concurrent subprocesses
stVars == <<st_pc, st_name, st_bucket>>
\* the variables of the specifications of single operations
\* update_task_status in two steps and GET /status/<task_id>
qVars == <<q_loaded, q_acked, q_resp>>
\* get_all_tasks
lsVars == <<ls_pc, ls_files, ls_req, ls_tasks, ls_resp>>
\* the main block of automation_task.py
drvVars == <<drv_pc, drv_args, result, drv_attempts, drv_put, drv_exit>>
extraVars == <<stVars, qVars, lsVars, drvVars>>

vars == <<task_file, clock, worker_pc, proc_pc, return_code, instance_state,
          s3_result, elapsed, state, attempt, mon_result, local_result,
          call_failed, term_probes, term_sleeps, always_ready, last_probe, detected,
          log_object, last_console_length, printed, log_seen, log_pc,
          ecr_repo, ecr_images, registry_check, had_image, build_status, created,
          delete_attempted, prune_list, prune_attempted, prune_failed, iam_role,
          iam_profile, calls, completed, exit_cause, instance_tags, launches, build_polls,
          lam_pc, role_name, lam_created, lam_attempted, lam_failed, lam_cleanups,
          lam_exit, sh_pc, sh_repo, sh_image, sh_role, sh_profile, sh_role_age,
          sh_sleep, sh_returned_age, sh_exit, extraVars>>

monVars == <<instance_state, s3_result, elapsed, state, attempt, mon_result,
             local_result, call_failed, term_probes, term_sleeps, always_ready,
             last_probe, detected>>
logVars == <<log_object, last_console_length, printed, log_seen, log_pc>>
\* before the first log fetch: nothing taken, nothing fetched, the log object
\* only ever appended to
NoFetch == [new_logs |-> <<>>, longest |-> 0, append_only |-> TRUE]
\* the provider-side state of the deploy pipeline and what the run did to it
pipeEnv == <<ecr_repo, ecr_images, registry_check, had_image, build_status, created,
             delete_attempted, prune_list, prune_attempted, prune_failed, iam_role,
             iam_profile, instance_tags, launches, build_polls>>
pipeVars == <<pipeEnv, calls, completed, exit_cause>>
lamVars == <<lam_pc, role_name, lam_created, lam_attempted, lam_failed, lam_cleanups,
            lam_exit>>
shVars == <<sh_pc, sh_repo, sh_image, sh_role, sh_profile, sh_role_age, sh_sleep,
           sh_returned_age, sh_exit>>
\* the variables of the other specifications of this module
otherVars == <<logVars, lamVars, shVars, extraVars>>

\* the tasks that run the deploy subprocess at the same time
Tasks == 1..NumTasks

\* no concurrent tasks are followed
SharedOff ==
    /\ sh_pc = [t \in Tasks |-> "off"]
    /\ sh_repo = FALSE
    /\ sh_image = FALSE
    /\ sh_role = FALSE
    /\ sh_profile = "absent"
    /\ sh_role_age = 0
    /\ sh_sleep = [t \in Tasks |-> 0]
    /\ sh_returned_age = [t \in Tasks |-> -1]
    /\ sh_exit = [t \in Tasks |-> "none"]

\* deploy_lambda.py is not run
\* random.randint(1000, 9999): the numbers INSTANCE_NAME is drawn from
NameNumbers == MinName..MaxName

\* the three objects a subprocess stages
StageKinds == {"task.txt", "automation_task.py", "scrapers.zip"}

\* f"{INSTANCE_NAME}-task.txt" and the two other keys, for the number drawn
StageKey(number, kind) == <<number, kind>>

\* no staging of concurrent subprocesses is followed
StageOff ==
    /\ st_pc = [t \in Tasks |-> "off"]
    /\ st_name = [t \in Tasks |-> 0]
    /\ st_bucket = [k \in NameNumbers \X StageKinds |-> 0]

\* the specifications of single operations are not running
\* no request of GET /status/<task_id> is followed
QueryOff ==
    /\ q_loaded = NoFile
    /\ q_acked = FALSE
    /\ q_resp = NoResponse

\* the answer of GET /status before the handler ran
NoPage == [tasks |-> <<>>, page |-> 0, per_page |-> 0, total |-> 0, total_pages |-> 0,
           has_next |-> FALSE, has_prev |-> FALSE]

\* the query parameters before a request was made
NoRequest == [page |-> 0, per_page |-> 0, status |-> "", scraper |-> "", sort |-> "",
              order |-> ""]

\* no request of GET /status is followed
ListOff ==
    /\ ls_pc = "off"
    /\ ls_files = <<>>
    /\ ls_req = NoRequest
    /\ ls_tasks = <<>>
    /\ ls_resp = NoPage

\* the result of automation_task.py before run_task has returned
NoDriverResult == [status |-> "None", final_url |-> "", error |-> ""]

\* automation_task.py is not run
DriverOff ==
    /\ drv_pc = "off"
    /\ drv_args = [task_id |-> "None", instance |-> "local-instance", scraper |-> "None"]
    /\ result = NoDriverResult
    /\ drv_attempts = 0
    /\ drv_put = <<>>
    /\ drv_exit = -1

ExtraOff == StageOff /\ QueryOff /\ ListOff /\ DriverOff

LambdaOff ==
    /\ lam_pc = "off"
    /\ role_name = "None"
    /\ lam_created = {}
    /\ lam_attempted = {}
    /\ lam_failed = {}
    /\ lam_cleanups = 0
    /\ lam_exit = "none"

\* the pipeline bookkeeping before the subprocess has done anything
\* no poll of the build made yet
NoPolls == [count |-> 0, slept |-> 0]

PipeStart ==
    /\ registry_check = "none"
    /\ had_image = "none"
    /\ build_status = "none"
    /\ created = {}
    /\ delete_attempted = {}
    /\ prune_list = "none"
    /\ prune_attempted = {}
    /\ prune_failed = {}
    /\ calls = <<>>
    /\ completed = {}
    /\ exit_cause = "none"
    /\ instance_tags = <<>>
    /\ launches = <<>>
    /\ build_polls = NoPolls

NoResult == [status |-> "none", error |-> "", path |-> ""]

Init ==
    /\ task_file = NoFile
    /\ clock = 0
    /\ worker_pc = "none"
    /\ proc_pc = "none"
    /\ return_code = -1
    /\ instance_state = "none"
    /\ s3_result = "absent"
    /\ elapsed = 0
    /\ state = "none"
    /\ attempt = 0
    /\ mon_result = NoResult
    /\ local_result = "absent"
    /\ call_failed = FALSE
    /\ term_probes = <<>>
    /\ term_sleeps = 0
    /\ always_ready = TRUE
    /\ last_probe = "none"
    /\ detected = <<>>
    /\ log_object = <<>>
    /\ last_console_length = 0
    /\ printed = <<>>
    /\ log_seen = NoFetch
    /\ log_pc = "off"
    /\ PipeStart
    /\ \E images \in SUBSET ImageTags :
          /\ ecr_repo \in (IF images = {} THEN BOOLEAN ELSE {TRUE})
          /\ ecr_images = images
    /\ \E role \in BOOLEAN :
          /\ iam_role = role
          /\ iam_profile \in (IF role THEN {"absent", "linked"} ELSE {"absent"})
    /\ LambdaOff
    /\ SharedOff
    /\ ExtraOff

(***************************************************************************)
(* app.py: POST /launch and the worker thread.                             *)
(***************************************************************************)
\* launch_agent: save the initial record and start the worker thread
launch_agent ==
    /\ worker_pc = "none"
    /\ \E prompt \in Prompts, scraper \in Scrapers :
          task_file' = InitialTask(prompt, scraper, clock)
    /\ clock' = clock + 1
    /\ worker_pc' = "start"
    /\ UNCHANGED <<proc_pc, return_code>>
    /\ UNCHANGED monVars
    /\ UNCHANGED pipeVars
    /\ UNCHANGED otherVars

\* run_agent_deployment: update_task_status(task_id, "deploying")
WorkerDeploying ==
    /\ worker_pc = "start"
    /\ task_file' = UpdatedFile(task_file, "deploying", EmptyDict, clock)
    /\ clock' = clock + 1
    /\ worker_pc' = "spawn"
    /\ UNCHANGED <<proc_pc, return_code>>
    /\ UNCHANGED monVars
    /\ UNCHANGED pipeVars
    /\ UNCHANGED otherVars

\* run_agent_deployment: open the log file and Popen the deploy subprocess
WorkerSpawn ==
    /\ worker_pc = "spawn"
    /\ worker_pc' = "streaming"
    /\ proc_pc' = "check_aws_credentials"
    /\ UNCHANGED <<task_file, clock, return_code>>
    /\ UNCHANGED monVars
    /\ UNCHANGED pipeVars
    /\ UNCHANGED otherVars

\* run_agent_deployment: open or Popen raises; the except branch marks failed
WorkerSpawnFails ==
    /\ worker_pc = "spawn"
    /\ task_file' = UpdatedFile(task_file, "failed", Kw("error", Str("exception")), clock)
    /\ clock' = clock + 1
    /\ worker_pc' = "done"
    /\ UNCHANGED <<proc_pc, return_code>>
    /\ UNCHANGED monVars
    /\ UNCHANGED pipeVars
    /\ UNCHANGED otherVars

\* run_agent_deployment: reading the subprocess output or writing the log file
\* raises while the subprocess runs; the except branch marks failed and the
\* thread ends, the subprocess is left running
WorkerStreamFails ==
    /\ worker_pc = "streaming"
    /\ proc_pc # "exited"
    /\ task_file' = UpdatedFile(task_file, "failed", Kw("error", Str("exception")), clock)
    /\ clock' = clock + 1
    /\ worker_pc' = "done"
    /\ UNCHANGED <<proc_pc, return_code>>
    /\ UNCHANGED monVars
    /\ UNCHANGED pipeVars
    /\ UNCHANGED otherVars

\* run_agent_deployment: process.wait() returned; write the final status
WorkerFinish ==
    /\ worker_pc = "streaming"
    /\ proc_pc = "exited"
    /\ task_file' = UpdatedFile(task_file, FinalStatus(return_code),
                                Kw("return_code", Num(return_code)), clock)
    /\ clock' = clock + 1
    /\ worker_pc' = "done"
    /\ UNCHANGED <<proc_pc, return_code>>
    /\ UNCHANGED monVars
    /\ UNCHANGED pipeVars
    /\ UNCHANGED otherVars

(***************************************************************************)
(* deploy_ai_agent.py: main and its phases before the monitor.             *)
(***************************************************************************)
\* the resources one run creates for itself
PerRunResources == {"build_bucket", "source_zip", "build_project", "task_object",
                    "script_object", "scrapers_object", "security_group", "instance"}

\* the phases of main that call the provider, in the order main calls them
Phases == <<"build_docker_image_if_needed", "create_iam_role", "upload_files_to_s3",
            "launch_ec2_instance", "monitor_instance_and_get_results">>

PhaseIndex(p) == CHOOSE i \in 1..Len(Phases) : Phases[i] = p

BuildSites == {"list_images", "create_repository", "create_bucket", "upload_source",
               "create_project", "start_build", "poll_build", "build_cleanup",
               "cleanup_old_images"}
IdentitySites == {"get_role", "create_role", "attach_role_policy",
                  "create_instance_profile", "propagation_sleep"}
StageSites == {"put_task", "put_script", "upload_scrapers"}
LaunchSites == {"describe_vpcs", "create_security_group", "run_instances"}

\* the phase whose code the position pc belongs to
PhaseOf(pc) ==
    CASE pc \in BuildSites -> Phases[1]
      [] pc \in IdentitySites -> Phases[2]
      [] pc \in StageSites -> Phases[3]
      [] pc \in LaunchSites -> Phases[4]
      [] OTHER -> "none"

\* the call record after a provider call made by phase p
Called(cs, p) == IF Len(cs) > 0 /\ cs[Len(cs)] = p THEN cs ELSE Append(cs, p)

\* the sites whose provider call, when it raises, ends in sys.exit(1) or in an
\* uncaught exception, with nothing created by the failed call
ExitSites == {"create_repository", "create_bucket", "upload_source", "create_project",
              "start_build", "poll_build", "get_role", "create_role",
              "attach_role_policy", "create_instance_profile", "put_task",
              "put_script", "upload_scrapers", "describe_vpcs",
              "create_security_group"}

\* the names bound where launch_ec2_instance builds the arguments of run_instances:
\* its parameters, its locals and the module globals
LaunchScope == {"prompt", "scraper", "task_key", "script_key", "scrapers_key", "ec2",
                "vpcs", "vpc_id", "subnets", "subnet_id", "sg_response",
                "security_group_id", "user_data", "REGION", "INSTANCE_NAME",
                "REPOSITORY_NAME", "INSTANCE_TYPE", "IMAGE_TAG"}

\* the tags of TagSpecifications whose value is a name: <<Key, name>>
TagSpec == <<<<"Name", "INSTANCE_NAME">>, <<"TASK_ID", "task_id">>,
             <<"TASK_KEY", "task_key">>, <<"SCRIPT_KEY", "script_key">>,
             <<"SCRAPERS_KEY", "scrapers_key">>, <<"INSTANCE_NAME", "INSTANCE_NAME">>,
             <<"IMAGE_TAG", "IMAGE_TAG">>, <<"SCRAPER", "scraper">>>>

\* evaluating the tags raises NameError: one of the names is not bound in scope
RaisesNameError(scope) == \E i \in 1..Len(TagSpec) : TagSpec[i][2] \notin scope

\* the values of the names of the tags, for the task id tid and the scraper scr
TagValues(tid, scr) ==
    [INSTANCE_NAME |-> "ai-executor-N", task_id |-> tid,
     task_key |-> "ai-executor-N-task.txt",
     script_key |-> "ai-executor-N-automation_task.py",
     scrapers_key |-> "ai-executor-N-scrapers.zip",
     IMAGE_TAG |-> "runtime-h1", scraper |-> scr]

\* the name that gives the tag k its value
NameOfKey(k) == TagSpec[CHOOSE i \in 1..Len(TagSpec) : TagSpec[i][1] = k][2]

\* the tags run_instances receives
EvalTags(tid, scr) ==
    [k \in {TagSpec[i][1] : i \in 1..Len(TagSpec)} |-> TagValues(tid, scr)[NameOfKey(k)]]


\* app.py passes --scraper only when the record's scraper is not None
ScraperArg == task_file["scraper"].s

\* the variables no step of the subprocess before the monitor touches
appVars == <<task_file, clock, worker_pc>>

\* main moves from site to next after a provider call made at site
Advance(site, next) ==
    /\ proc_pc = site
    /\ proc_pc' = next
    /\ calls' = IF PhaseOf(site) = "none" THEN calls ELSE Called(calls, PhaseOf(site))
    /\ completed' = IF PhaseOf(next) # PhaseOf(site) /\ PhaseOf(site) # "none"
                       THEN completed \cup {PhaseOf(site)} ELSE completed
    /\ UNCHANGED <<return_code, exit_cause>>
    /\ UNCHANGED appVars
    /\ UNCHANGED monVars
    /\ UNCHANGED otherVars

\* a provider call at site succeeds and creates the resources res
Step(site, next, res) ==
    /\ Advance(site, next)
    /\ created' = created \cup res
    /\ UNCHANGED <<ecr_repo, ecr_images, registry_check, had_image, build_status, delete_attempted,
                   prune_list, prune_attempted, prune_failed, iam_role, iam_profile,
                   instance_tags,
                   launches, build_polls>>

\* a handler of upload_files_to_s3 that prints the error and goes on
AfterFailureSwallowed(site) == IF site = "upload_scrapers" THEN "describe_vpcs" ELSE "exited"

\* where the subprocess is after the failure at site: every handler ends in
\* sys.exit(1), and an exception nothing catches ends the process as well
AfterFailure(site) == "exited"

\* the subprocess ends with exit code 1 because of cause
Exit1(cause) ==
    /\ proc_pc' = AfterFailure(cause)
    /\ return_code' = 1
    /\ exit_cause' = cause
    /\ UNCHANGED appVars
    /\ UNCHANGED monVars
    /\ UNCHANGED otherVars

\* check_aws_credentials: both environment variables are set
CheckCredentials == Step("check_aws_credentials", "list_images", {})

\* check_aws_credentials: a variable is missing, sys.exit(1)
CheckCredentialsFails ==
    /\ proc_pc = "check_aws_credentials"
    /\ Exit1("check_aws_credentials")
    /\ UNCHANGED pipeEnv
    /\ UNCHANGED <<calls, completed>>

\* a provider call raises; its handler calls sys.exit(1), or nothing catches it
CallFails ==
    /\ proc_pc \in ExitSites
    /\ Exit1(proc_pc)
    /\ calls' = Called(calls, PhaseOf(proc_pc))
    /\ UNCHANGED pipeEnv
    /\ UNCHANGED completed

\* what build_docker_image_if_needed learns from list_images
RegistryCheck(repo, images, raised) ==
    IF raised THEN "error"
    ELSE IF ~repo THEN "no_repo"
    ELSE IF IMAGE_TAG \in images THEN "found"
    ELSE "not_found"

\* build_docker_image_if_needed: list the images; return if the tag is there
ListImages ==
    /\ \E raised \in BOOLEAN :
          LET seen == RegistryCheck(ecr_repo, ecr_images, raised) IN
          /\ registry_check' = seen
          /\ Advance("list_images", IF seen = "found" THEN "get_role" ELSE "create_repository")
    /\ had_image' = (IF IMAGE_TAG \in ecr_images THEN "yes" ELSE "no")
    /\ UNCHANGED <<ecr_repo, ecr_images, build_status, created, delete_attempted,
                   prune_list, prune_attempted, prune_failed, iam_role, iam_profile,
                   instance_tags,
                   launches, build_polls>>

\* create_repository succeeds or raises RepositoryAlreadyExistsException
CreateRepository ==
    /\ Advance("create_repository", "create_bucket")
    /\ ecr_repo' = TRUE
    /\ UNCHANGED <<ecr_images, registry_check, had_image, build_status, created, delete_attempted,
                   prune_list, prune_attempted, prune_failed, iam_role, iam_profile,
                   instance_tags,
                   launches, build_polls>>

\* build_docker_image_with_codebuild: s3.create_bucket
CreateBucket == Step("create_bucket", "upload_source", {"build_bucket"})

\* s3.upload_file of source.zip
UploadSource == Step("upload_source", "create_project", {"source_zip"})

\* codebuild.create_project, at the first attempt or after creating the service role
CreateProject == Step("create_project", "start_build", {"build_project"})

\* codebuild.start_build
StartBuild ==
    /\ Advance("start_build", "poll_build")
    /\ build_status' = "IN_PROGRESS"
    /\ UNCHANGED <<ecr_repo, ecr_images, registry_check, had_image, created, delete_attempted,
                   prune_list, prune_attempted, prune_failed, iam_role, iam_profile,
                   instance_tags,
                   launches, build_polls>>

FailedStatuses == {"FAILED", "FAULT", "STOPPED", "TIMED_OUT"}

\* CodeBuild ends the job; a job that succeeds has pushed the image
BuildAdvance ==
    /\ build_status = "IN_PROGRESS"
    /\ \E s \in {"SUCCEEDED"} \cup FailedStatuses :
          /\ build_status' = s
          /\ ecr_images' = IF s = "SUCCEEDED" THEN ecr_images \cup {IMAGE_TAG} ELSE ecr_images
    /\ UNCHANGED <<proc_pc, return_code, exit_cause, calls, completed, ecr_repo,
                   registry_check, had_image, created, delete_attempted, prune_list,
                   prune_attempted, prune_failed, iam_role, iam_profile, instance_tags,
                   launches, build_polls>>
    /\ UNCHANGED appVars
    /\ UNCHANGED monVars
    /\ UNCHANGED otherVars

\* mutant: a stopped build is polled again
PollOutcomeStoppedWaits(status) ==
    IF status = "SUCCEEDED" THEN "break"
    ELSE IF status \in FailedStatuses \ {"STOPPED"} THEN "exit"
    ELSE "sleep"

\* what one pass of the poll loop does with the status it read
PollOutcome(status) ==
    IF status = "SUCCEEDED" THEN "break"
    ELSE IF status \in FailedStatuses THEN "exit"
    ELSE "sleep"

\* one more batch_get_builds call, followed by a sleep or not
Polled(p, slept) == [count |-> p.count + 1, slept |-> p.slept + slept]

pollFrame == <<ecr_repo, ecr_images, registry_check, had_image, build_status, created,
               delete_attempted, prune_list, prune_attempted, prune_failed, iam_role,
               iam_profile, instance_tags, launches>>

\* the poll loop reads SUCCEEDED and breaks
PollBuildSucceeded ==
    /\ PollOutcome(build_status) = "break"
    /\ Advance("poll_build", "build_cleanup")
    /\ build_polls' = Polled(build_polls, 0)
    /\ UNCHANGED pollFrame

\* the poll loop reads a failed status, prints the logs and calls sys.exit(1)
PollBuildFailed ==
    /\ proc_pc = "poll_build"
    /\ PollOutcome(build_status) = "exit"
    /\ Exit1("build_failed")
    /\ calls' = Called(calls, PhaseOf(proc_pc))
    /\ build_polls' = Polled(build_polls, 0)
    /\ UNCHANGED pollFrame
    /\ UNCHANGED completed

\* the poll loop reads any other status: time.sleep(30) and the next pass
PollBuildWaits ==
    /\ proc_pc = "poll_build"
    /\ PollOutcome(build_status) = "sleep"
    /\ build_polls.count < MaxPolls
    /\ build_polls' = Polled(build_polls, BuildPollSleep)
    /\ calls' = Called(calls, PhaseOf(proc_pc))
    /\ UNCHANGED pollFrame
    /\ UNCHANGED <<proc_pc, return_code, exit_cause, completed>>
    /\ UNCHANGED appVars
    /\ UNCHANGED monVars
    /\ UNCHANGED otherVars

\* the deletions of the clean-up block, in the order the code calls them
CleanupOrder == <<"source_zip", "build_bucket", "build_project">>

\* the deletions called when the first succeeded calls succeed and the next raises
CleanupCalled(succeeded) ==
    {CleanupOrder[i] : i \in 1..(IF succeeded < Len(CleanupOrder) THEN succeeded + 1
                                  ELSE Len(CleanupOrder))}

\* after the loop: delete_object, delete_bucket, delete_project in one try block
BuildCleanup ==
    /\ Advance("build_cleanup", "cleanup_old_images")
    /\ \E succeeded \in 0..Len(CleanupOrder) :
          delete_attempted' = delete_attempted \cup CleanupCalled(succeeded)
    /\ UNCHANGED <<ecr_repo, ecr_images, registry_check, had_image, build_status, created,
                   prune_list, prune_attempted, prune_failed, iam_role, iam_profile,
                   instance_tags,
                   launches, build_polls>>

\* a pruning that forgets to spare the current tag
OldImagesAll(images) == {tag \in images : StartsWithRuntime(tag)}

\* the tags cleanup_old_images deletes: runtime images other than the current one
OldImages(images) == {tag \in images : StartsWithRuntime(tag) /\ tag # IMAGE_TAG}

\* cleanup_old_images: list the images and delete the old ones, each in its own try
CleanupOldImages ==
    /\ Advance("cleanup_old_images", "get_role")
    /\ \E listed \in BOOLEAN :
          IF listed
          THEN \E failed \in SUBSET OldImages(ecr_images) :
                  /\ prune_list' = "listed"
                  /\ prune_attempted' = OldImages(ecr_images)
                  /\ prune_failed' = failed
                  /\ ecr_images' = ecr_images \ (OldImages(ecr_images) \ failed)
          ELSE /\ prune_list' = "error"
               /\ UNCHANGED <<prune_attempted, prune_failed, ecr_images>>
    /\ UNCHANGED <<ecr_repo, registry_check, had_image, build_status, created, delete_attempted,
                   iam_role, iam_profile, instance_tags,
                   launches, build_polls>>

\* create_iam_role: get_role finds the role and the function returns at once,
\* or raises NoSuchEntityException
GetRole ==
    /\ Advance("get_role", IF iam_role THEN "put_task" ELSE "create_role")
    /\ UNCHANGED pipeEnv

\* iam.create_role
CreateRole ==
    /\ ~iam_role
    /\ Advance("create_role", "attach_role_policy")
    /\ iam_role' = TRUE
    /\ UNCHANGED <<ecr_repo, ecr_images, registry_check, had_image, build_status, created,
                   delete_attempted, prune_list, prune_attempted, prune_failed,
                   iam_profile, instance_tags,
                   launches, build_polls>>

\* the three attach_role_policy calls
AttachRolePolicy == Step("attach_role_policy", "create_instance_profile", {})

\* create_instance_profile and add_role_to_instance_profile; an existing profile
\* raises EntityAlreadyExistsException, which is passed over
CreateInstanceProfile ==
    /\ Advance("create_instance_profile", "propagation_sleep")
    /\ iam_profile' = IF iam_profile = "absent" THEN "linked" ELSE iam_profile
    /\ UNCHANGED <<ecr_repo, ecr_images, registry_check, had_image, build_status, created,
                   delete_attempted, prune_list, prune_attempted, prune_failed,
                   iam_role, instance_tags,
                   launches, build_polls>>

\* time.sleep(10), then return role_name
PropagationSleep ==
    /\ proc_pc = "propagation_sleep"
    /\ proc_pc' = "put_task"
    /\ completed' = completed \cup {PhaseOf(proc_pc)}
    /\ UNCHANGED <<return_code, exit_cause, calls>>
    /\ UNCHANGED pipeEnv
    /\ UNCHANGED appVars
    /\ UNCHANGED monVars
    /\ UNCHANGED otherVars

\* upload_files_to_s3: put_object of the task prompt
PutTask == Step("put_task", "put_script", {"task_object"})

\* put_object of the automation script
PutScript == Step("put_script", "upload_scrapers", {"script_object"})

\* upload_file of the scrapers archive, then return the three keys
UploadScrapers == Step("upload_scrapers", "describe_vpcs", {"scrapers_object"})

\* launch_ec2_instance: describe_vpcs and describe_subnets find the default network
DescribeVpcs == Step("describe_vpcs", "create_security_group", {})

\* ec2.create_security_group
CreateSecurityGroup == Step("create_security_group", "run_instances", {"security_group"})

\* the try block around run_instances: the arguments are evaluated first; a
\* NameError, like a refusal of the provider, goes to the except branch and
\* sys.exit(1); otherwise the instance exists and its id is returned
RunInstances ==
    /\ proc_pc = "run_instances"
    /\ IF RaisesNameError(LaunchScope)
       THEN /\ Exit1("NameError")
            /\ UNCHANGED <<calls, completed, created, instance_tags, launches>>
       ELSE \E accepted \in BOOLEAN :
              IF accepted
              THEN /\ proc_pc' = "monitor_start"
                   /\ calls' = Called(calls, PhaseOf(proc_pc))
                   /\ completed' = completed \cup {PhaseOf(proc_pc)}
                   /\ created' = created \cup {"instance"}
                   /\ instance_tags' = EvalTags(TaskId, ScraperArg)
                   /\ launches' = Append(launches, LaunchCall(TRUE))
                   /\ instance_state' = "pending"
                   /\ UNCHANGED <<return_code, exit_cause>>
                   /\ UNCHANGED appVars
                   /\ UNCHANGED <<s3_result, elapsed, state, attempt, mon_result,
                                  local_result, call_failed, term_probes, term_sleeps,
                                  always_ready, last_probe, detected>>
                   /\ UNCHANGED otherVars
              ELSE /\ Exit1("run_instances")
                   /\ calls' = Called(calls, PhaseOf(proc_pc))
                   /\ launches' = Append(launches, LaunchCall(FALSE))
                   /\ UNCHANGED <<completed, created, instance_tags>>
    /\ UNCHANGED <<ecr_repo, ecr_images, registry_check, had_image, build_status, delete_attempted,
                   prune_list, prune_attempted, prune_failed, iam_role, iam_profile,
                   build_polls>>

\* main: the monitor has returned; its result is dropped and the process ends
MainExit ==
    /\ proc_pc = "returned"
    /\ proc_pc' = "exited"
    /\ return_code' = 0
    /\ UNCHANGED <<task_file, clock, worker_pc>>
    /\ UNCHANGED monVars
    /\ UNCHANGED pipeVars
    /\ UNCHANGED otherVars

(***************************************************************************)
(* The environment of the monitor: the instance and the execution driver.  *)
(***************************************************************************)
TerminalStates == {"terminated", "stopping", "stopped"}

NextInstanceStates(s) ==
    CASE s = "pending" -> {"running"}
      [] s = "running" -> {"shutting-down", "stopping"}
      [] s = "shutting-down" -> {"terminated"}
      [] s = "stopping" -> {"stopped"}
      [] OTHER -> {}

\* the provider moves the instance to its next lifecycle state
InstanceAdvance ==
    /\ \E s \in NextInstanceStates(instance_state) : instance_state' = s
    /\ UNCHANGED <<task_file, clock, worker_pc, proc_pc, return_code, s3_result, elapsed,
                   state, attempt, mon_result, local_result, call_failed, term_probes,
                   term_sleeps, always_ready,
                   last_probe, detected>>
    /\ UNCHANGED pipeVars
    /\ UNCHANGED otherVars

\* automation_task.py: the driver uploads its result object, once
DriverUpload ==
    /\ instance_state \in {"running", "shutting-down", "stopping"}
    /\ s3_result = "absent"
    /\ \E st \in {"success", "error"} : s3_result' = st
    /\ UNCHANGED <<task_file, clock, worker_pc, proc_pc, return_code, instance_state,
                   elapsed, state, attempt, mon_result, local_result, call_failed,
                   term_probes, term_sleeps, always_ready,
                   last_probe, detected>>
    /\ UNCHANGED pipeVars
    /\ UNCHANGED otherVars

(***************************************************************************)
(* deploy_ai_agent.py: monitor_instance_and_get_results.                   *)
(***************************************************************************)
Hotlinks == {"hotlink-A", "hotlink-B"}

TimeoutResult == [status |-> "timeout", error |-> "Task timed out after 3 days", path |-> "deadline"]
NoUploadResult ==
    [status |-> "error", error |-> "Instance terminated without uploading results",
     path |-> "fallback"]
S3ErrorResult == [status |-> "error", error |-> "S3 error", path |-> "fallback"]
\* the result object as fetched and parsed, with the path that found it
Fetched(st, path) == [status |-> st, error |-> "", path |-> path]

\* the throttle of the running-path probe: (time.time() - start_time) % 60 < 30
ProbeDue(t) == (t % ProbePeriod) < ProbeWindow

\* what a cycle does about the probe: only a cycle with state running decides
ProbeDecision(st, t) ==
    IF st = "running" THEN (IF ProbeDue(t) THEN "probed" ELSE "skipped") ELSE "none"

\* "if attempt < 5": the attempts after which the monitor sleeps and retries
LastAttempt == 5
\* mutant: the last attempt is taken to be the fifth
RetriesAfterOffByOne(a) == a < LastAttempt - 1
RetriesAfter(a) == a < LastAttempt

\* mutant: a hotlink already saved is kept
SaveHotlinkOnce(file, url) ==
    IF file = NoFile \/ "browser_hotlink" \in DOMAIN file THEN file
    ELSE Put(file, "browser_hotlink", Str(url))

\* the hotlink write: load the record if the file exists, set the field, save
SaveHotlink(file, url) ==
    IF file = NoFile THEN file ELSE Put(file, "browser_hotlink", Str(url))

\* the hotlinks of the new lines of one poll, in line order
HotlinkRuns == UNION {[1..n -> Hotlinks] : n \in 1..MaxHotlinks}

\* the loop over the new lines: one write of the record per detected hotlink
RECURSIVE SaveHotlinks(_, _)
SaveHotlinks(file, urls) ==
    IF urls = <<>> THEN file
    ELSE SaveHotlinks(SaveHotlink(file, Head(urls)), Tail(urls))

\* mutant: the merge starts from the empty dict and drops the loaded record
MergeIntoEmptyDict(file, st) == Put(EmptyDict, "automation_result", Obj(st))

\* the merge of the terminated path: task_data = {} unless the file exists
MergeAutomationResult(file, st) ==
    Put(IF file = NoFile THEN EmptyDict ELSE file, "automation_result", Obj(st))

\* account id lookup and start_time = time.time()
MonitorStart ==
    /\ proc_pc = "monitor_start"
    /\ proc_pc' = "loop"
    /\ elapsed' = 0
    /\ always_ready' = TRUE
    /\ last_probe' = "none"
    /\ detected' = <<>>
    /\ calls' = Called(calls, Phases[5])
    /\ UNCHANGED <<task_file, clock, worker_pc, return_code, instance_state, s3_result,
                   state, attempt, mon_result, local_result, call_failed, term_probes,
                   term_sleeps>>
    /\ UNCHANGED <<pipeEnv, completed, exit_cause>>
    /\ UNCHANGED otherVars

\* get_caller_identity raises outside the loop's try: main dies with a traceback
MonitorStartFails ==
    /\ proc_pc = "monitor_start"
    /\ proc_pc' = "exited"
    /\ return_code' = 1
    /\ call_failed' = TRUE
    /\ calls' = Called(calls, Phases[5])
    /\ exit_cause' = "monitor_start"
    /\ UNCHANGED <<task_file, clock, worker_pc, instance_state, s3_result, elapsed, state,
                   attempt, mon_result, local_result, term_probes, term_sleeps,
                   always_ready,
                   last_probe, detected>>
    /\ UNCHANGED <<pipeEnv, completed>>
    /\ UNCHANGED otherVars

\* while time.time() - start_time < timeout; past the deadline return timeout
MonitorLoop ==
    /\ proc_pc = "loop"
    /\ IF elapsed < TimeoutUnits
          THEN /\ proc_pc' = "describe"
               /\ UNCHANGED mon_result
          ELSE /\ proc_pc' = "returned"
               /\ mon_result' = TimeoutResult
    /\ UNCHANGED <<task_file, clock, worker_pc, return_code, instance_state, s3_result,
                   elapsed, state, attempt, local_result, call_failed, term_probes,
                   term_sleeps, always_ready,
                   last_probe, detected>>
    /\ UNCHANGED pipeVars
    /\ UNCHANGED otherVars

\* describe_instances answers; the calls of the cycle take d time units in all
\* (describe_instance_status: its errors are dropped)
MonitorDescribe ==
    /\ proc_pc = "describe"
    /\ \E d \in 0..MaxCallDelay : elapsed' = elapsed + d
    /\ state' = instance_state
    /\ call_failed' = FALSE
    /\ always_ready' = (always_ready /\ instance_state = "running" /\ s3_result # "absent")
    /\ UNCHANGED <<last_probe, detected>>
    /\ proc_pc' = "logs"
    /\ UNCHANGED <<task_file, clock, worker_pc, return_code, instance_state, s3_result,
                   attempt, mon_result, local_result, term_probes, term_sleeps>>
    /\ UNCHANGED pipeVars
    /\ UNCHANGED otherVars

\* describe_instances raises: the outer except sleeps 10 seconds and loops
MonitorDescribeFails ==
    /\ proc_pc = "describe"
    /\ \E d \in 0..MaxCallDelay : elapsed' = elapsed + d + ErrorBackoff
    /\ call_failed' = TRUE
    /\ always_ready' = FALSE
    /\ last_probe' = "none"
    /\ UNCHANGED detected
    /\ proc_pc' = "loop"
    /\ UNCHANGED <<task_file, clock, worker_pc, return_code, instance_state, s3_result,
                   state, attempt, mon_result, local_result, term_probes, term_sleeps>>
    /\ UNCHANGED pipeVars
    /\ UNCHANGED otherVars

\* the log streaming block: when running, fetch the log; a new line may carry a
\* hotlink, which is saved to the task record; a failed fetch is only printed
MonitorTailLog ==
    /\ proc_pc = "logs"
    /\ proc_pc' = "probe"
    /\ IF state = "running"
          THEN \/ /\ call_failed' = FALSE
                  /\ detected' = <<>>
                  /\ UNCHANGED <<task_file, always_ready>>
               \/ /\ call_failed' = FALSE
                  /\ \E urls \in HotlinkRuns :
                        /\ task_file' = SaveHotlinks(task_file, urls)
                        /\ detected' = urls
                  /\ UNCHANGED always_ready
               \/ /\ call_failed' = TRUE
                  /\ always_ready' = FALSE
                  /\ detected' = <<>>
                  /\ UNCHANGED task_file
          ELSE /\ detected' = <<>>
               /\ UNCHANGED <<task_file, call_failed, always_ready>>
    /\ UNCHANGED last_probe
    /\ UNCHANGED <<clock, worker_pc, return_code, instance_state, s3_result, elapsed, state,
                   attempt, mon_result, local_result, term_probes, term_sleeps>>
    /\ UNCHANGED pipeVars
    /\ UNCHANGED otherVars

\* the throttled probe of the running path: a found result object is written to
\* result-<INSTANCE_NAME>.json and returned; NoSuchKey and other errors pass
MonitorProbe ==
    /\ proc_pc = "probe"
    /\ IF state = "running" /\ ProbeDue(elapsed)
          THEN \/ /\ s3_result # "absent"
                  /\ local_result' = s3_result
                  /\ mon_result' = Fetched(s3_result, "running")
                  /\ call_failed' = FALSE
                  /\ proc_pc' = "returned"
                  /\ UNCHANGED always_ready
               \/ /\ s3_result = "absent"
                  /\ call_failed' = FALSE
                  /\ proc_pc' = "termcheck"
                  /\ UNCHANGED <<local_result, mon_result, always_ready>>
               \/ /\ call_failed' = TRUE
                  /\ always_ready' = FALSE
                  /\ proc_pc' = "termcheck"
                  /\ UNCHANGED <<local_result, mon_result>>
          ELSE /\ proc_pc' = "termcheck"
               /\ UNCHANGED <<local_result, mon_result, call_failed, always_ready>>
    /\ last_probe' = ProbeDecision(state, elapsed)
    /\ UNCHANGED detected
    /\ UNCHANGED <<task_file, clock, worker_pc, return_code, instance_state, s3_result,
                   elapsed, state, attempt, term_probes, term_sleeps>>
    /\ UNCHANGED pipeVars
    /\ UNCHANGED otherVars

\* "if state in [terminated, stopping, stopped]": final console output (errors
\* dropped) and entry of the retry loop; otherwise sleep 30 seconds
MonitorTermCheck ==
    /\ proc_pc = "termcheck"
    /\ IF state \in TerminalStates
          THEN /\ proc_pc' = "retry"
               /\ attempt' = 0
               /\ UNCHANGED elapsed
          ELSE /\ proc_pc' = "loop"
               /\ elapsed' = elapsed + PollSleep
               /\ UNCHANGED attempt
    /\ UNCHANGED <<task_file, clock, worker_pc, return_code, instance_state, s3_result,
                   state, mon_result, local_result, call_failed, term_probes, term_sleeps,
                   always_ready,
                   last_probe, detected>>
    /\ UNCHANGED pipeVars
    /\ UNCHANGED otherVars

\* one pass of "for attempt in range(6)": the result object is found
MonitorRetryFound ==
    /\ proc_pc = "retry"
    /\ s3_result # "absent"
    /\ task_file' = MergeAutomationResult(task_file, s3_result)
    /\ mon_result' = Fetched(s3_result, "terminated")
    /\ term_probes' = Append(term_probes, "found")
    /\ call_failed' = FALSE
    /\ proc_pc' = "returned"
    /\ UNCHANGED <<clock, worker_pc, return_code, instance_state, s3_result, elapsed, state,
                   attempt, local_result, term_sleeps, always_ready,
                   last_probe, detected>>
    /\ UNCHANGED pipeVars
    /\ UNCHANGED otherVars

\* one pass of "for attempt in range(6)": NoSuchKey
MonitorRetryNoSuchKey ==
    /\ proc_pc = "retry"
    /\ s3_result = "absent"
    /\ term_probes' = Append(term_probes, "NoSuchKey")
    /\ call_failed' = FALSE
    /\ IF RetriesAfter(attempt)
          THEN /\ term_sleeps' = term_sleeps + 1
               /\ attempt' = attempt + 1
               /\ IF attempt + 1 < RetryAttempts
                     THEN /\ elapsed' = elapsed + RetrySleep
                          /\ proc_pc' = "retry"
                     ELSE /\ elapsed' = elapsed + RetrySleep + PollSleep
                          /\ proc_pc' = "loop"
               /\ UNCHANGED mon_result
          ELSE /\ mon_result' = NoUploadResult
               /\ proc_pc' = "returned"
               /\ UNCHANGED <<term_sleeps, attempt, elapsed>>
    /\ UNCHANGED <<task_file, clock, worker_pc, return_code, instance_state, s3_result,
                   state, local_result, always_ready,
                   last_probe, detected>>
    /\ UNCHANGED pipeVars
    /\ UNCHANGED otherVars

\* one pass of "for attempt in range(6)": any other exception ends the monitor
MonitorRetryError ==
    /\ proc_pc = "retry"
    /\ term_probes' = Append(term_probes, "error")
    /\ call_failed' = TRUE
    /\ mon_result' = S3ErrorResult
    /\ proc_pc' = "returned"
    /\ UNCHANGED <<task_file, clock, worker_pc, return_code, instance_state, s3_result,
                   elapsed, state, attempt, local_result, term_sleeps, always_ready,
                   last_probe, detected>>
    /\ UNCHANGED pipeVars
    /\ UNCHANGED otherVars

\* the service from POST /launch on
Next ==
    \/ launch_agent
    \/ WorkerDeploying
    \/ WorkerSpawn
    \/ WorkerSpawnFails
    \/ WorkerStreamFails
    \/ WorkerFinish
    \/ CheckCredentials
    \/ CheckCredentialsFails
    \/ CallFails
    \/ ListImages
    \/ CreateRepository
    \/ CreateBucket
    \/ UploadSource
    \/ CreateProject
    \/ StartBuild
    \/ BuildAdvance
    \/ PollBuildSucceeded
    \/ PollBuildFailed
    \/ PollBuildWaits
    \/ BuildCleanup
    \/ CleanupOldImages
    \/ GetRole
    \/ CreateRole
    \/ AttachRolePolicy
    \/ CreateInstanceProfile
    \/ PropagationSleep
    \/ PutTask
    \/ PutScript
    \/ UploadScrapers
    \/ DescribeVpcs
    \/ CreateSecurityGroup
    \/ RunInstances

Spec == Init /\ [][Next]_vars

\* monitor_instance_and_get_results is entered: the worker is streaming, the
\* record says deploying, the four phases before the monitor have returned and
\* the instance carries the tags of the run
InitMonitor ==
    /\ \E prompt \in Prompts, scraper \in Scrapers :
          task_file = UpdatedFile(InitialTask(prompt, scraper, 0), "deploying", EmptyDict, 1)
    /\ clock = 2
    /\ worker_pc = "streaming"
    /\ proc_pc = "monitor_start"
    /\ return_code = -1
    /\ instance_state = "pending"
    /\ s3_result = "absent"
    /\ elapsed = 0
    /\ state = "none"
    /\ attempt = 0
    /\ mon_result = NoResult
    /\ local_result = "absent"
    /\ call_failed = FALSE
    /\ term_probes = <<>>
    /\ term_sleeps = 0
    /\ always_ready = TRUE
    /\ last_probe = "none"
    /\ detected = <<>>
    /\ log_object = <<>>
    /\ last_console_length = 0
    /\ printed = <<>>
    /\ log_seen = NoFetch
    /\ log_pc = "off"
    /\ ecr_repo = TRUE
    /\ ecr_images = {IMAGE_TAG}
    /\ registry_check = "found"
    /\ had_image = "yes"
    /\ build_status = "none"
    /\ created = {"task_object", "script_object", "scrapers_object", "security_group",
                  "instance"}
    /\ delete_attempted = {}
    /\ prune_list = "none"
    /\ prune_attempted = {}
    /\ prune_failed = {}
    /\ iam_role = TRUE
    /\ iam_profile = "linked"
    /\ calls = SubSeq(Phases, 1, 4)
    /\ completed = {Phases[i] : i \in 1..4}
    /\ exit_cause = "none"
    /\ instance_tags = EvalTags(TaskId, ScraperArg)
    /\ launches = <<LaunchCall(TRUE)>>
    /\ build_polls = NoPolls
    /\ LambdaOff
    /\ SharedOff
    /\ ExtraOff

\* the monitor, its environment, and the end of main and of the worker after it
NextMonitor ==
    \/ InstanceAdvance
    \/ DriverUpload
    \/ MonitorStart
    \/ MonitorStartFails
    \/ MonitorLoop
    \/ MonitorDescribe
    \/ MonitorDescribeFails
    \/ MonitorTailLog
    \/ MonitorProbe
    \/ MonitorTermCheck
    \/ MonitorRetryFound
    \/ MonitorRetryNoSuchKey
    \/ MonitorRetryError
    \/ MainExit
    \/ WorkerStreamFails
    \/ WorkerFinish

SpecMonitor == InitMonitor /\ [][NextMonitor]_vars

\* the service from POST /launch on, together with the runs of the monitor
NextTask == Next \/ NextMonitor

SpecTask == (Init \/ InitMonitor) /\ [][NextTask]_vars

(***************************************************************************)
(* The log streaming block of the monitor in detail.  Strings are          *)
(* sequences of one-character strings.                                     *)
(***************************************************************************)
NL == "\n"
Chars == {"a", " ", NL}
IsSpace(c) == c \in {" ", NL}

RECURSIVE LStrip(_)
LStrip(s) == IF s = <<>> THEN s ELSE IF IsSpace(Head(s)) THEN LStrip(Tail(s)) ELSE s

RECURSIVE RStrip(_)
RStrip(s) ==
    IF s = <<>> THEN s
    ELSE IF IsSpace(s[Len(s)]) THEN RStrip(SubSeq(s, 1, Len(s) - 1)) ELSE s

\* str.strip()
Strip(s) == RStrip(LStrip(s))

\* str.split('\n')
RECURSIVE SplitLines(_)
SplitLines(s) ==
    IF \A i \in 1..Len(s) : s[i] # NL THEN <<s>>
    ELSE LET i == CHOOSE j \in 1..Len(s) : s[j] = NL /\ \A h \in 1..(j - 1) : s[h] # NL
         IN <<SubSeq(s, 1, i - 1)>> \o SplitLines(SubSeq(s, i + 1, Len(s)))

\* "if line.strip()": the lines that are printed
NonBlank(lines) == SelectSeq(lines, LAMBDA l : Strip(l) # <<>>)

\* the lines printed for the new suffix new_log
PrintedLines(new_log) ==
    IF Strip(new_log) # <<>> THEN NonBlank(SplitLines(Strip(new_log))) ELSE <<>>

\* current_log[last_console_length:]
NewLog(current_log, last) == SubSeq(current_log, last + 1, Len(current_log))

\* the cursor set to the length of every fetch
NextCursorUnguarded(current_log, last) == Len(current_log)

\* the cursor after a fetch of current_log
NextCursor(current_log, last) == IF Len(current_log) > last THEN Len(current_log) ELSE last

\* the fetches so far after a fetch of current_log: the suffixes taken, joined,
\* and the length of the longest content fetched
NextSeen(seen, current_log, last) ==
    [seen EXCEPT !.new_logs = IF Len(current_log) > last
                              THEN @ \o NewLog(current_log, last) ELSE @,
                 !.longest = IF Len(current_log) > @ THEN Len(current_log) ELSE @]

\* what the monitor has printed after a fetch of current_log
NextPrinted(out, current_log, last) ==
    IF Len(current_log) > last THEN out \o PrintedLines(NewLog(current_log, last)) ELSE out

logFrame == <<task_file, clock, worker_pc, proc_pc, return_code, s3_result, elapsed, state,
              attempt, mon_result, local_result, call_failed, term_probes, term_sleeps,
              always_ready, last_probe, detected, pipeVars, lamVars, shVars, extraVars>>

InitLog ==
    /\ task_file = NoFile
    /\ clock = 0
    /\ worker_pc = "none"
    /\ proc_pc = "none"
    /\ return_code = -1
    /\ instance_state = "running"
    /\ s3_result = "absent"
    /\ elapsed = 0
    /\ state = "none"
    /\ attempt = 0
    /\ mon_result = NoResult
    /\ local_result = "absent"
    /\ call_failed = FALSE
    /\ term_probes = <<>>
    /\ term_sleeps = 0
    /\ always_ready = TRUE
    /\ last_probe = "none"
    /\ detected = <<>>
    /\ log_object = <<>>
    /\ last_console_length = 0
    /\ printed = <<>>
    /\ log_seen = NoFetch
    /\ log_pc = "polling"
    /\ PipeStart
    /\ ecr_repo = TRUE
    /\ ecr_images = {IMAGE_TAG}
    /\ iam_role = TRUE
    /\ iam_profile = "linked"
    /\ LambdaOff
    /\ SharedOff
    /\ ExtraOff

\* the instance appends one character to its log object
LogAppend ==
    /\ log_pc = "polling"
    /\ instance_state = "running"
    /\ Len(log_object) < MaxLog
    /\ \E c \in Chars : log_object' = Append(log_object, c)
    /\ UNCHANGED <<instance_state, last_console_length, printed, log_seen, log_pc>>
    /\ UNCHANGED logFrame

\* the log object is written anew with shorter content
LogReplaced ==
    /\ log_pc = "polling"
    /\ instance_state = "running"
    /\ log_object # <<>>
    /\ \E n \in 0..(Len(log_object) - 1) : log_object' = SubSeq(log_object, 1, n)
    /\ log_seen' = [log_seen EXCEPT !.append_only = FALSE]
    /\ UNCHANGED <<instance_state, last_console_length, printed, log_pc>>
    /\ UNCHANGED logFrame

\* the instance shuts itself down
LogInstanceTerminates ==
    /\ instance_state = "running"
    /\ instance_state' = "terminated"
    /\ UNCHANGED <<log_object, last_console_length, printed, log_seen, log_pc>>
    /\ UNCHANGED logFrame

\* a poll cycle that sees state running and fetches the log; no result yet
LogPollRunning ==
    /\ log_pc = "polling"
    /\ instance_state = "running"
    /\ printed' = NextPrinted(printed, log_object, last_console_length)
    /\ last_console_length' = NextCursor(log_object, last_console_length)
    /\ log_seen' = NextSeen(log_seen, log_object, last_console_length)
    /\ UNCHANGED <<instance_state, log_object, log_pc>>
    /\ UNCHANGED logFrame

\* a poll cycle that sees state running and whose log fetch raises
LogPollFetchFails ==
    /\ log_pc = "polling"
    /\ instance_state = "running"
    /\ UNCHANGED <<instance_state, log_object, last_console_length, printed, log_seen,
                   log_pc>>
    /\ UNCHANGED logFrame

\* a poll cycle that sees state running, fetches the log and finds the result
LogPollResultFound ==
    /\ log_pc = "polling"
    /\ instance_state = "running"
    /\ printed' = NextPrinted(printed, log_object, last_console_length)
    /\ last_console_length' = NextCursor(log_object, last_console_length)
    /\ log_seen' = NextSeen(log_seen, log_object, last_console_length)
    /\ log_pc' = "returned"
    /\ UNCHANGED <<instance_state, log_object>>
    /\ UNCHANGED logFrame

\* a poll cycle that sees a terminal state: no log fetch, the monitor returns
LogPollTerminated ==
    /\ log_pc = "polling"
    /\ instance_state \in TerminalStates
    /\ log_pc' = "returned"
    /\ UNCHANGED <<instance_state, log_object, last_console_length, printed, log_seen>>
    /\ UNCHANGED logFrame

\* the deadline has passed at the head of the loop: the monitor returns
LogDeadline ==
    /\ log_pc = "polling"
    /\ log_pc' = "timed_out"
    /\ UNCHANGED <<instance_state, log_object, last_console_length, printed, log_seen>>
    /\ UNCHANGED logFrame

NextLog ==
    \/ LogAppend
    \/ LogReplaced
    \/ LogInstanceTerminates
    \/ LogPollRunning
    \/ LogPollFetchFails
    \/ LogPollResultFound
    \/ LogPollTerminated
    \/ LogDeadline

SpecLog == InitLog /\ [][NextLog]_vars

(***************************************************************************)
(* Properties.                                                             *)
(***************************************************************************)
\* the status field of the record, "nofile" or "absent" when there is none
StatusOf(file) ==
    IF file = NoFile THEN "nofile"
    ELSE IF "status" \in DOMAIN file THEN file["status"].s ELSE "absent"

\* dict.get(key)
Field(file, key) == IF key \in DOMAIN file THEN file[key] ELSE None

StatusSteps ==
    {<<"nofile", "queued">>, <<"queued", "deploying">>,
     <<"deploying", "completed">>, <<"deploying", "failed">>}

C2_Timestamps ==
    task_file # NoFile =>
        /\ Field(task_file, "started_at").k = "ts"
              <=> StatusOf(task_file) \in {"deploying", "completed", "failed"}
        /\ Field(task_file, "completed_at").k = "ts"
              <=> StatusOf(task_file) \in {"completed", "failed"}

\* C3: after the instance terminated without a result object and the retries are
\* used up, the record ends failed with an error about the missing upload.
C3_SilentDeath ==
    (worker_pc = "done" /\ s3_result = "absent" /\ mon_result = NoUploadResult) =>
        /\ StatusOf(task_file) = "failed"
        /\ Field(task_file, "error") = Str(NoUploadResult.error)

\* C4: once the monitor has returned the timeout outcome the status of the record
\* is still deploying.
C4_TimeoutKeepsStatus ==
    mon_result.status = "timeout" => StatusOf(task_file) = "deploying"

\* C5: a result object found while the instance is running is merged into the
\* record under automation_result and the record ends completed.
C5_HappyPath ==
    (worker_pc = "done" /\ mon_result = Fetched("success", "running")) =>
        /\ StatusOf(task_file) = "completed"
        /\ Field(task_file, "automation_result") = Obj("success")

\* C6: when at every poll of the run the instance is running, the result object
\* is present and no provider call fails, the monitor returns the result object
\* found on the running path, whatever the durations of the calls.
C6_ResultPrecedence ==
    (proc_pc \in {"returned", "exited"} /\ mon_result # NoResult
        /\ always_ready /\ instance_state = "running") =>
            /\ mon_result.path = "running"
            /\ mon_result.status = s3_result

C8_ExplicitError ==
    (worker_pc = "done" /\ mon_result \in {Fetched("error", "running"), Fetched("error", "terminated")})
        => StatusOf(task_file) = "failed"

\* C9: a step of the monitor in which a provider call fails never makes the
\* monitor return.
C9_ErrorsAbsorbed ==
    [][(call_failed' /\ proc_pc' = "returned") => proc_pc = "returned"]_vars

\* C10: when the monitor returns with a result or after the instance ended, the
\* lines it printed are the non-blank lines of the log content, each once and in
\* order (compared without the blanks around each line).
C10_LogLines ==
    log_pc = "returned" =>
        [i \in 1..Len(printed) |-> Strip(printed[i])]
            = [i \in 1..Len(NonBlank(SplitLines(log_object))) |->
                  Strip(NonBlank(SplitLines(log_object))[i])]

(***************************************************************************)
(* The deploy pipeline before the monitor.                                 *)
(***************************************************************************)
\* C11: once staging, network discovery and the security group have succeeded
\* and the provider has not refused run_instances, launch_ec2_instance has
\* returned the id of a new instance that carries the tag TASK_ID with the value
\* of --task-id and the tags TASK_KEY, SCRIPT_KEY, SCRAPERS_KEY, IMAGE_TAG, SCRAPER
C11_LaunchTagsInstance ==
    ("security_group" \in created /\ proc_pc # "run_instances"
                                  /\ exit_cause # "run_instances") =>
        /\ "instance" \in created
        /\ Phases[4] \in completed
        /\ instance_tags = EvalTags(TaskId, ScraperArg)

\* the phase a failure cause belongs to, or its position past the last phase
CausePhaseIndex(cause) ==
    CASE cause \in {"NameError", "run_instances"} -> 4
      [] cause = "build_failed" -> 1
      [] cause = "monitor_start" -> 5
      [] PhaseOf(cause) # "none" -> PhaseIndex(PhaseOf(cause))
      [] OTHER -> 0

\* C12: the phases make their provider calls in the order build, identity,
\* stage, launch, monitor; a phase calls the provider only when every phase
\* before it has returned; after a failure the subprocess has exited with a
\* nonzero code and no phase after the failed one has called the provider
C12_PhaseOrder ==
    /\ \A i \in 1..Len(calls) :
          /\ i < Len(calls) => PhaseIndex(calls[i]) < PhaseIndex(calls[i + 1])
          /\ \A j \in 1..(PhaseIndex(calls[i]) - 1) : Phases[j] \in completed
    /\ exit_cause # "none" =>
          /\ proc_pc = "exited"
          /\ return_code \notin {0, -1}
          /\ \A i \in 1..Len(calls) : PhaseIndex(calls[i]) <= CausePhaseIndex(exit_cause)

\* the security group call fails after build, identity and stage have returned
C12_Witness ==
    /\ proc_pc = "exited"
    /\ exit_cause = "create_security_group"
    /\ calls = SubSeq(Phases, 1, 4)
    /\ completed = {Phases[1], Phases[2], Phases[3]}
    /\ build_status = "SUCCEEDED"

\* C13: when the subprocess has ended, the deletion of every per-run resource
\* it created has been attempted
C13_CleanupOnExit ==
    proc_pc = "exited" =>
        \A r \in PerRunResources : r \in created => r \in delete_attempted

\* C16: once the poll loop has read the result of the build job, SUCCEEDED or a
\* failed status, the deletion of source.zip and of its bucket has been attempted
\* by the time the function has returned or the process has exited
C16_BuildCleanupAttempted ==
    (exit_cause = "build_failed" \/ (build_status = "SUCCEEDED" /\ Phases[1] \in completed))
        => {"source_zip", "build_bucket"} \subseteq delete_attempted

\* C17: when the registry held the image with the current tag at the time
\* build_docker_image_if_needed ran, the run has created no source bucket, no
\* source archive and no CodeBuild project, and has started no build job
C17_IdempotentBuild ==
    had_image = "yes" =>
        /\ created \cap {"build_bucket", "source_zip", "build_project"} = {}
        /\ build_status = "none"

\* C18 as stated: cleanup_old_images has run only after a successful build, the
\* image with the current tag is still there and was not a target, every other
\* runtime image was a target, and the run went on to the next phase
C18_PruneAll ==
    prune_list # "none" =>
        /\ build_status = "SUCCEEDED"
        /\ IMAGE_TAG \in ecr_images
        /\ IMAGE_TAG \notin prune_attempted
        /\ OldImages(ecr_images) \subseteq prune_attempted
        /\ Phases[1] \in completed
        /\ exit_cause \notin BuildSites

\* C18, amended: the same, for the runs in which the list_images call of
\* cleanup_old_images succeeds; when it raises, nothing is deleted
C18_PruneListed ==
    /\ prune_list # "none" =>
          /\ build_status = "SUCCEEDED"
          /\ IMAGE_TAG \in ecr_images
          /\ IMAGE_TAG \notin prune_attempted
          /\ Phases[1] \in completed
          /\ exit_cause \notin BuildSites
    /\ prune_list = "listed" => OldImages(ecr_images) \subseteq prune_attempted
    /\ prune_list = "error" => prune_attempted = {}

\* two old runtime images were targets, one deletion failed, the run went on
C18_Witness ==
    /\ prune_list = "listed"
    /\ Cardinality(prune_attempted) = 2
    /\ Cardinality(prune_failed) = 1
    /\ Tag("", "latest") \in ecr_images
    /\ proc_pc = "put_task"

(***************************************************************************)
(* deploy_lambda.py: main and cleanup_resources.                           *)
(***************************************************************************)
\* the resources cleanup_resources deletes, in the order of its three blocks
LambdaResources == <<"function", "role", "repository">>

\* the ways the try block of main is left
ExitKinds == {"normal", "SystemExit", "Exception", "KeyboardInterrupt"}

\* the statements of the try block, in order; the role function is unfolded
TrySites == <<"check_aws_credentials", "create_ecr_repository", "build_and_push_image",
              "get_role", "create_role", "attach_role_policy", "role_sleep",
              "create_lambda_function", "function_sleep", "invoke_lambda_function">>

\* the sites that call sys.exit(1) on failure
SysExitSites == {"check_aws_credentials", "create_ecr_repository", "build_and_push_image",
                 "get_role", "create_lambda_function"}

\* the sites whose provider call can raise past the function's own handlers
RaisingSites == {"create_ecr_repository", "build_and_push_image", "create_role",
                 "attach_role_policy"}

\* the ways the try block can be left at site, other than by running to its end
LeaveKinds(site) ==
    {"KeyboardInterrupt"}
        \cup (IF site \in SysExitSites THEN {"SystemExit"} ELSE {})
        \cup (IF site \in RaisingSites THEN {"Exception"} ELSE {})

\* a clean-up written in the two except handlers only, not in a finally clause
RunsFinallyHandled(kind) == kind \in {"Exception", "KeyboardInterrupt"}

\* the finally clause runs however the try block is left
RunsFinally(kind) == kind \in ExitKinds

lamFrame == <<task_file, clock, worker_pc, proc_pc, return_code, monVars, logVars, pipeVars,
              shVars, extraVars>>

InitLambda ==
    /\ task_file = NoFile
    /\ clock = 0
    /\ worker_pc = "none"
    /\ proc_pc = "none"
    /\ return_code = -1
    /\ instance_state = "none"
    /\ s3_result = "absent"
    /\ elapsed = 0
    /\ state = "none"
    /\ attempt = 0
    /\ mon_result = NoResult
    /\ local_result = "absent"
    /\ call_failed = FALSE
    /\ term_probes = <<>>
    /\ term_sleeps = 0
    /\ always_ready = TRUE
    /\ last_probe = "none"
    /\ detected = <<>>
    /\ log_object = <<>>
    /\ last_console_length = 0
    /\ printed = <<>>
    /\ log_seen = NoFetch
    /\ log_pc = "off"
    /\ PipeStart
    /\ ecr_repo = FALSE
    /\ ecr_images = {}
    /\ iam_role = FALSE
    /\ iam_profile = "absent"
    /\ lam_pc = TrySites[1]
    /\ role_name = "None"
    /\ lam_created = {}
    /\ lam_attempted = {}
    /\ lam_failed = {}
    /\ lam_cleanups = 0
    /\ lam_exit = "none"
    /\ SharedOff
    /\ ExtraOff

\* the site after site when its statement succeeds; get_role skips the creation
\* when the role is found
NextSite(site, found) ==
    IF site = "get_role" /\ found THEN "create_lambda_function"
    ELSE TrySites[(CHOOSE i \in 1..Len(TrySites) : TrySites[i] = site) + 1]

\* what the statement at site creates when it succeeds
Creates(site) ==
    CASE site = "create_ecr_repository" -> {"repository"}
      [] site = "create_role" -> {"role"}
      [] site = "create_lambda_function" -> {"function"}
      [] OTHER -> {}

\* main: the statement at the current site succeeds; role_name is assigned when
\* create_lambda_execution_role returns
LambdaStep ==
    /\ lam_pc \in {TrySites[i] : i \in 1..(Len(TrySites) - 1)}
    /\ \E found \in (IF lam_pc = "get_role" THEN BOOLEAN ELSE {FALSE}) :
          /\ lam_pc' = NextSite(lam_pc, found)
          /\ role_name' = IF lam_pc = "role_sleep" \/ (lam_pc = "get_role" /\ found)
                             THEN "execution-role" ELSE role_name
    /\ lam_created' = lam_created \cup Creates(lam_pc)
    /\ UNCHANGED <<lam_attempted, lam_failed, lam_cleanups, lam_exit>>
    /\ UNCHANGED lamFrame

\* main: the try block is left by kind; the finally clause calls cleanup_resources
Leave(kind) ==
    /\ lam_exit' = kind
    /\ lam_pc' = IF RunsFinally(kind) THEN "delete_function" ELSE "done"
    /\ lam_cleanups' = IF RunsFinally(kind) THEN lam_cleanups + 1 ELSE lam_cleanups
    /\ UNCHANGED <<role_name, lam_created, lam_attempted, lam_failed>>
    /\ UNCHANGED lamFrame

\* invoke_lambda_function catches its errors; the try block runs to its end
LambdaInvoke ==
    /\ lam_pc = "invoke_lambda_function"
    /\ Leave("normal")

\* sys.exit(1), an exception or Ctrl-C at the current site
LambdaLeaves ==
    /\ lam_pc \in {TrySites[i] : i \in 1..Len(TrySites)}
    /\ \E kind \in LeaveKinds(lam_pc) : Leave(kind)

\* one block of cleanup_resources: the deletion is called and may raise; the
\* except branch prints and goes on to the next block
Delete(resource, next) ==
    /\ lam_pc' = next
    /\ lam_attempted' = lam_attempted \cup {resource}
    /\ \E raised \in (IF resource \in lam_created THEN BOOLEAN ELSE {TRUE}) :
          lam_failed' = IF raised THEN lam_failed \cup {resource} ELSE lam_failed
    /\ UNCHANGED <<role_name, lam_created, lam_cleanups, lam_exit>>
    /\ UNCHANGED lamFrame

\* cleanup_resources: delete_function
DeleteFunction ==
    /\ lam_pc = "delete_function"
    /\ Delete("function", "delete_role")

\* cleanup_resources: detach_role_policy and delete_role, only if role_name
DeleteRole ==
    /\ lam_pc = "delete_role"
    /\ IF role_name # "None"
       THEN Delete("role", "delete_repository")
       ELSE /\ lam_pc' = "delete_repository"
            /\ UNCHANGED <<role_name, lam_created, lam_attempted, lam_failed,
                           lam_cleanups, lam_exit>>
            /\ UNCHANGED lamFrame

\* cleanup_resources: delete_repository, then the function returns
DeleteRepository ==
    /\ lam_pc = "delete_repository"
    /\ Delete("repository", "done")

NextLambda ==
    \/ LambdaStep
    \/ LambdaInvoke
    \/ LambdaLeaves
    \/ DeleteFunction
    \/ DeleteRole
    \/ DeleteRepository

SpecLambda == InitLambda /\ [][NextLambda]_vars

\* C14: when cleanup_resources has returned, for each of the three resources
\* whose deletion failed, the deletion of each other resource this run created
\* has been attempted
C14_CleanupResilience ==
    lam_pc = "done" =>
        \A r \in lam_failed : \A other \in lam_created \ {r} : other \in lam_attempted

\* C15: once the try block of main has been left, by its end, by sys.exit, by an
\* exception or by Ctrl-C, cleanup_resources has been entered exactly once; it
\* is not entered before
C15_CleanupOnce ==
    /\ lam_exit = "none" => lam_cleanups = 0
    /\ lam_exit # "none" => lam_cleanups = 1

\* main has ended after a sys.exit(1) and the three blocks of the clean-up
C15_Witness ==
    /\ lam_pc = "done"
    /\ lam_exit = "SystemExit"
    /\ lam_cleanups = 1
    /\ "function" \in lam_attempted

(***************************************************************************)
(* deploy_ai_agent.py: several tasks run build_docker_image_if_needed and  *)
(* create_iam_role at the same time on the shared repository and role.     *)
(***************************************************************************)
\* the age from which the role counts as created long ago
RoleAgeCap == PropagationDelay + 1

shFrame == <<task_file, clock, worker_pc, proc_pc, return_code, monVars, logVars, pipeVars,
             lamVars, extraVars>>

InitShared ==
    /\ task_file = NoFile
    /\ clock = 0
    /\ worker_pc = "none"
    /\ proc_pc = "none"
    /\ return_code = -1
    /\ instance_state = "none"
    /\ s3_result = "absent"
    /\ elapsed = 0
    /\ state = "none"
    /\ attempt = 0
    /\ mon_result = NoResult
    /\ local_result = "absent"
    /\ call_failed = FALSE
    /\ term_probes = <<>>
    /\ term_sleeps = 0
    /\ always_ready = TRUE
    /\ last_probe = "none"
    /\ detected = <<>>
    /\ log_object = <<>>
    /\ last_console_length = 0
    /\ printed = <<>>
    /\ log_seen = NoFetch
    /\ log_pc = "off"
    /\ PipeStart
    /\ ecr_repo = FALSE
    /\ ecr_images = {}
    /\ iam_role = FALSE
    /\ iam_profile = "absent"
    /\ LambdaOff
    /\ ExtraOff
    /\ sh_pc = [t \in Tasks |-> "list_images"]
    /\ sh_repo \in BOOLEAN
    /\ sh_image = FALSE
    /\ sh_role \in BOOLEAN
    /\ sh_profile = IF sh_role THEN "linked" ELSE "absent"
    /\ sh_role_age = IF sh_role THEN RoleAgeCap ELSE 0
    /\ sh_sleep = [t \in Tasks |-> 0]
    /\ sh_returned_age = [t \in Tasks |-> -1]
    /\ sh_exit = [t \in Tasks |-> "none"]

\* task t moves to site next
Goto(t, next) == sh_pc' = [sh_pc EXCEPT ![t] = next]

\* task t ends in sys.exit(1) because of the error err
ExitWith(t, err) ==
    /\ Goto(t, "exited")
    /\ sh_exit' = [sh_exit EXCEPT ![t] = err]

\* build_docker_image_if_needed: list_images finds the tag and returns, or the
\* repository or the tag is missing and the task goes on to build
SharedListImages(t) ==
    /\ sh_pc[t] = "list_images"
    /\ Goto(t, IF sh_repo /\ sh_image THEN "get_role" ELSE "create_repository")
    /\ UNCHANGED <<sh_repo, sh_image, sh_role, sh_profile, sh_role_age, sh_sleep,
                   sh_returned_age, sh_exit>>
    /\ UNCHANGED shFrame

\* create_repository creates the repository, or raises
\* RepositoryAlreadyExistsException, which the handler takes as success
SharedCreateRepository(t) ==
    /\ sh_pc[t] = "create_repository"
    /\ Goto(t, "build")
    /\ sh_repo' = TRUE
    /\ UNCHANGED <<sh_image, sh_role, sh_profile, sh_role_age, sh_sleep,
                   sh_returned_age, sh_exit>>
    /\ UNCHANGED shFrame

\* build_docker_image_with_codebuild and cleanup_old_images: the image is pushed
SharedBuild(t) ==
    /\ sh_pc[t] = "build"
    /\ Goto(t, "get_role")
    /\ sh_image' = TRUE
    /\ UNCHANGED <<sh_repo, sh_role, sh_profile, sh_role_age, sh_sleep,
                   sh_returned_age, sh_exit>>
    /\ UNCHANGED shFrame

\* create_iam_role: get_role finds the role and the function returns at once,
\* or raises NoSuchEntityException
SharedGetRole(t) ==
    /\ sh_pc[t] = "get_role"
    /\ Goto(t, IF sh_role THEN "returned" ELSE "create_role")
    /\ sh_returned_age' = IF sh_role THEN [sh_returned_age EXCEPT ![t] = sh_role_age]
                          ELSE sh_returned_age
    /\ UNCHANGED <<sh_repo, sh_image, sh_role, sh_profile, sh_role_age, sh_sleep, sh_exit>>
    /\ UNCHANGED shFrame

\* iam.create_role creates the role, or raises EntityAlreadyExistsException,
\* which only the outer except Exception catches: sys.exit(1)
SharedCreateRole(t) ==
    /\ sh_pc[t] = "create_role"
    /\ IF sh_role
       THEN /\ ExitWith(t, "EntityAlreadyExists")
            /\ UNCHANGED <<sh_role, sh_role_age>>
       ELSE /\ Goto(t, "attach_role_policy")
            /\ sh_role' = TRUE
            /\ sh_role_age' = 0
            /\ UNCHANGED sh_exit
    /\ UNCHANGED <<sh_repo, sh_image, sh_profile, sh_sleep, sh_returned_age>>
    /\ UNCHANGED shFrame

\* the three attach_role_policy calls
SharedAttachRolePolicy(t) ==
    /\ sh_pc[t] = "attach_role_policy"
    /\ Goto(t, "create_instance_profile")
    /\ UNCHANGED <<sh_repo, sh_image, sh_role, sh_profile, sh_role_age, sh_sleep,
                   sh_returned_age, sh_exit>>
    /\ UNCHANGED shFrame

\* create_instance_profile and add_role_to_instance_profile, an existing profile
\* is passed over; then time.sleep(10) starts
SharedCreateInstanceProfile(t) ==
    /\ sh_pc[t] = "create_instance_profile"
    /\ Goto(t, "sleep")
    /\ sh_profile' = "linked"
    /\ sh_sleep' = [sh_sleep EXCEPT ![t] = PropagationDelay]
    /\ UNCHANGED <<sh_repo, sh_image, sh_role, sh_role_age, sh_returned_age, sh_exit>>
    /\ UNCHANGED shFrame

\* time.sleep(10) is over: return role_name
SharedSleepDone(t) ==
    /\ sh_pc[t] = "sleep"
    /\ sh_sleep[t] = 0
    /\ Goto(t, "returned")
    /\ sh_returned_age' = [sh_returned_age EXCEPT ![t] = sh_role_age]
    /\ UNCHANGED <<sh_repo, sh_image, sh_role, sh_profile, sh_role_age, sh_sleep, sh_exit>>
    /\ UNCHANGED shFrame

\* a provider call of task t raises another error: sys.exit(1)
SharedCallFails(t) ==
    /\ sh_pc[t] \in {"create_repository", "build", "get_role", "create_role",
                     "attach_role_policy", "create_instance_profile"}
    /\ ExitWith(t, "error")
    /\ UNCHANGED <<sh_repo, sh_image, sh_role, sh_profile, sh_role_age, sh_sleep,
                   sh_returned_age>>
    /\ UNCHANGED shFrame

\* one time unit passes: the role gets older and the sleeping tasks sleep on
SharedTick ==
    /\ sh_role
    /\ sh_role_age < RoleAgeCap
    /\ sh_role_age' = sh_role_age + 1
    /\ sh_sleep' = [t \in Tasks |-> IF sh_sleep[t] > 0 THEN sh_sleep[t] - 1 ELSE 0]
    /\ UNCHANGED <<sh_pc, sh_repo, sh_image, sh_role, sh_profile, sh_returned_age, sh_exit>>
    /\ UNCHANGED shFrame

NextShared ==
    \/ \E t \in Tasks : SharedListImages(t)
    \/ \E t \in Tasks : SharedCreateRepository(t)
    \/ \E t \in Tasks : SharedBuild(t)
    \/ \E t \in Tasks : SharedGetRole(t)
    \/ \E t \in Tasks : SharedCreateRole(t)
    \/ \E t \in Tasks : SharedAttachRolePolicy(t)
    \/ \E t \in Tasks : SharedCreateInstanceProfile(t)
    \/ \E t \in Tasks : SharedSleepDone(t)
    \/ \E t \in Tasks : SharedCallFails(t)
    \/ SharedTick

SpecShared == InitShared /\ [][NextShared]_vars

\* C19: no task exits with an error because another task created the shared
\* repository or the shared role first: an "already exists" answer to its own
\* create call is taken as success
C19_FirstUseRace ==
    \A t \in Tasks : sh_exit[t] \notin {"RepositoryAlreadyExists", "EntityAlreadyExists"}

\* C20: create_iam_role has returned in no task earlier than the propagation
\* delay after the creation of the role
C20_PropagationBarrier ==
    \A t \in Tasks : sh_pc[t] = "returned" => sh_returned_age[t] >= PropagationDelay

(***************************************************************************)
(* The task record and the pipeline, continued.                            *)
(***************************************************************************)
\* C21: when one of the three uploads of upload_files_to_s3 has failed, the
\* subprocess has exited with a nonzero code, no security group was created and
\* no instance was launched
C21_StagingFailFast ==
    exit_cause \in StageSites =>
        /\ proc_pc = "exited"
        /\ return_code \notin {0, -1}
        /\ "security_group" \notin created
        /\ "instance" \notin created
        /\ \A i \in 1..Len(calls) : calls[i] # Phases[4]

\* the upload of the automation script fails after the prompt was staged
C21_Witness ==
    /\ exit_cause = "put_script"
    /\ proc_pc = "exited"
    /\ created = {"task_object"}
    /\ worker_pc = "done"

\* C23: when the subprocess ended because its build, stage or launch phase
\* failed and the worker has written the final status, the record has the status
\* failed and an error field with the cause
C23_FailureRecorded ==
    (worker_pc = "done" /\ CausePhaseIndex(exit_cause) \in {1, 3, 4}) =>
        /\ StatusOf(task_file) = "failed"
        /\ "error" \in DOMAIN task_file
        /\ Field(task_file, "error").k = "str"

\* C24: while the record says deploying or more, the instance of the task has
\* been launched; during build, identity, staging and launch it says queued
C24_DeployingAfterLaunch ==
    (task_file # NoFile /\ proc_pc \in BuildSites \cup IdentitySites \cup StageSites
                                         \cup LaunchSites) =>
        /\ StatusOf(task_file) = "queued"
        /\ "instance" \notin created

\* the fields of the record that are set once, at creation
CreationFields == {"id", "created_at", "prompt"}

\* C25: every write of the record (update_task_status, the monitor's
\* browser_hotlink write, the automation_result merge) keeps the values that id,
\* created_at and prompt got at creation
C25_CreationFieldsKept ==
    [][task_file # NoFile =>
         /\ task_file' # NoFile
         /\ \A f \in CreationFields :
               f \in DOMAIN task_file =>
                   f \in DOMAIN task_file' /\ task_file'[f] = task_file[f]]_vars

\* the record after all three kinds of write: final status, hotlink and merged result
C25_Witness ==
    /\ task_file # NoFile
    /\ worker_pc = "done"
    /\ StatusOf(task_file) \in {"completed", "failed"}
    /\ "browser_hotlink" \in DOMAIN task_file
    /\ "automation_result" \in DOMAIN task_file
    /\ \A f \in CreationFields : f \in DOMAIN task_file
    /\ task_file["id"] = Str(TaskId)

\* the number of instances the provider launched for the accepted calls cs
RECURSIVE Launched(_)
Launched(cs) ==
    IF cs = <<>> THEN 0
    ELSE (IF Head(cs).accepted THEN Head(cs).MaxCount ELSE 0) + Launched(Tail(cs))

\* C27: a run calls run_instances at most once, with MinCount = MaxCount = 1, so
\* at most one instance is ever launched for a task; a failed launch is the end
\* of the run and is not retried
C27_OneInstance ==
    /\ Len(launches) <= 1
    /\ \A i \in 1..Len(launches) : launches[i].MinCount = 1 /\ launches[i].MaxCount = 1
    /\ Launched(launches) <= 1
    /\ ("instance" \in created) = (Launched(launches) = 1)
    /\ exit_cause \in {"NameError", "run_instances"} =>
          proc_pc = "exited" /\ Launched(launches) = 0

\* a whole run after its single accepted launch
C27_Witness ==
    /\ Len(launches) = 1
    /\ launches[1].accepted
    /\ proc_pc = "exited"
    /\ worker_pc = "done"

(***************************************************************************)
(* Staging by concurrent subprocesses.  Each subprocess draws INSTANCE_NAME *)
(* when the module is loaded and stages its three objects in the results    *)
(* bucket of the account, under keys made from that name.                   *)
(***************************************************************************)
\* the service with no task, no subprocess and nothing created
CoreIdle ==
    /\ task_file = NoFile
    /\ clock = 0
    /\ worker_pc = "none"
    /\ proc_pc = "none"
    /\ return_code = -1
    /\ instance_state = "none"
    /\ s3_result = "absent"
    /\ elapsed = 0
    /\ state = "none"
    /\ attempt = 0
    /\ mon_result = NoResult
    /\ local_result = "absent"
    /\ call_failed = FALSE
    /\ term_probes = <<>>
    /\ term_sleeps = 0
    /\ always_ready = TRUE
    /\ last_probe = "none"
    /\ detected = <<>>
    /\ log_object = <<>>
    /\ last_console_length = 0
    /\ printed = <<>>
    /\ log_seen = NoFetch
    /\ log_pc = "off"
    /\ PipeStart
    /\ ecr_repo = FALSE
    /\ ecr_images = {}
    /\ iam_role = FALSE
    /\ iam_profile = "absent"
    /\ LambdaOff
    /\ SharedOff

coreVars == <<task_file, clock, worker_pc, proc_pc, return_code, monVars, logVars, pipeVars,
              lamVars, shVars>>

stFrame == <<coreVars, qVars, lsVars, drvVars>>

InitStage ==
    /\ CoreIdle
    /\ st_pc = [t \in Tasks |-> "import"]
    /\ st_name = [t \in Tasks |-> 0]
    /\ st_bucket = [k \in NameNumbers \X StageKinds |-> 0]
    /\ QueryOff
    /\ ListOff
    /\ DriverOff

\* the order of the uploads of upload_files_to_s3 and what follows them
StageOrder == <<"put_task", "put_script", "upload_scrapers", "run_instances">>

\* the object an upload site writes
KindOf(site) ==
    CASE site = "put_task" -> "task.txt"
      [] site = "put_script" -> "automation_task.py"
      [] site = "upload_scrapers" -> "scrapers.zip"

\* the site after site
AfterSite(site) == StageOrder[(CHOOSE i \in 1..Len(StageOrder) : StageOrder[i] = site) + 1]

\* module load: INSTANCE_NAME = f"ai-executor-{random.randint(1000, 9999)}"
StageImport(t) ==
    /\ st_pc[t] = "import"
    /\ \E number \in NameNumbers : st_name' = [st_name EXCEPT ![t] = number]
    /\ st_pc' = [st_pc EXCEPT ![t] = "put_task"]
    /\ UNCHANGED st_bucket
    /\ UNCHANGED stFrame

\* one upload of upload_files_to_s3: the object replaces what the key held
StageUpload(t) ==
    /\ st_pc[t] \in StageSites
    /\ st_bucket' = [st_bucket EXCEPT ![StageKey(st_name[t], KindOf(st_pc[t]))] = t]
    /\ st_pc' = [st_pc EXCEPT ![t] = AfterSite(st_pc[t])]
    /\ UNCHANGED st_name
    /\ UNCHANGED stFrame

\* an upload raises: "Failed to upload files to S3", sys.exit(1)
StageUploadFails(t) ==
    /\ st_pc[t] \in StageSites
    /\ st_pc' = [st_pc EXCEPT ![t] = "exited"]
    /\ UNCHANGED <<st_name, st_bucket>>
    /\ UNCHANGED stFrame

\* launch_ec2_instance after staging: the run ends, launched or not; the staged
\* objects stay in the bucket
StageLaunch(t) ==
    /\ st_pc[t] = "run_instances"
    /\ st_pc' = [st_pc EXCEPT ![t] = IF RaisesNameError(LaunchScope) THEN "exited"
                                     ELSE "launched"]
    /\ UNCHANGED <<st_name, st_bucket>>
    /\ UNCHANGED stFrame

NextStage ==
    \E t \in Tasks :
        \/ StageImport(t)
        \/ StageUpload(t)
        \/ StageUploadFails(t)
        \/ StageLaunch(t)

SpecStage == InitStage /\ [][NextStage]_vars

\* task t has staged its prompt and its instance has not read it yet
PromptStaged(t) == st_pc[t] \in {"put_script", "upload_scrapers", "run_instances"}

\* C26: two concurrent tasks stage their prompts under different keys, and a
\* staged prompt is not overwritten before the instance of its task reads it
C26_DistinctPromptKeys ==
    \A t1, t2 \in Tasks :
        /\ (t1 # t2 /\ st_name[t1] # 0 /\ st_name[t2] # 0) =>
               StageKey(st_name[t1], "task.txt") # StageKey(st_name[t2], "task.txt")
        /\ PromptStaged(t1) => st_bucket[StageKey(st_name[t1], "task.txt")] = t1

(***************************************************************************)
(* app.py: GET /status/<task_id> against the writes of the worker thread.   *)
(* save_task opens the file with mode 'w', which empties it, and json.dump  *)
(* writes the record afterwards; Flask serves requests on other threads.    *)
(***************************************************************************)
\* load_task: None (here NoFile) when the file is missing or json.load raises
LoadTask(file) == IF file \in {NoFile, Truncated} THEN NoFile ELSE file

\* get_task_status: the record, or 404 when load_task returned None
GetTaskStatus(file) == IF LoadTask(file) = NoFile THEN NotFound ELSE LoadTask(file)

qFrame == <<proc_pc, monVars, logVars, pipeVars, lamVars, shVars, stVars, lsVars,
           drvVars>>

InitQuery ==
    /\ CoreIdle
    /\ StageOff
    /\ QueryOff
    /\ ListOff
    /\ DriverOff

\* launch_agent: save_task, start the worker thread, answer 202 with the task id
QueryLaunch ==
    /\ worker_pc = "none"
    /\ \E prompt \in Prompts, scraper \in Scrapers :
          task_file' = InitialTask(prompt, scraper, clock)
    /\ clock' = clock + 1
    /\ worker_pc' = "load_deploying"
    /\ q_acked' = TRUE
    /\ UNCHANGED <<return_code, q_loaded, q_resp>>
    /\ UNCHANGED qFrame

\* the status a worker position is about to write, and its keyword arguments
StatusAt(pc) == IF pc \in {"load_deploying", "open_deploying", "dump_deploying"}
                THEN "deploying" ELSE FinalStatus(return_code)
KwargsAt(pc) == IF pc \in {"load_deploying", "open_deploying", "dump_deploying"}
                THEN EmptyDict
                ELSE IF return_code = -1 THEN Kw("error", Str("exception"))
                ELSE Kw("return_code", Num(return_code))

\* update_task_status: task = load_task(task_id); nothing more when it is None
QueryLoad ==
    /\ worker_pc \in {"load_deploying", "load_final"}
    /\ q_loaded' = LoadTask(task_file)
    /\ worker_pc' = IF LoadTask(task_file) = NoFile
                    THEN (IF worker_pc = "load_deploying" THEN "spawn" ELSE "done")
                    ELSE (IF worker_pc = "load_deploying" THEN "open_deploying"
                          ELSE "open_final")
    /\ UNCHANGED <<task_file, clock, return_code, q_acked, q_resp>>
    /\ UNCHANGED qFrame

\* save_task: open(task_file, 'w') empties the file
QueryOpen ==
    /\ worker_pc \in {"open_deploying", "open_final"}
    /\ task_file' = Truncated
    /\ worker_pc' = IF worker_pc = "open_deploying" THEN "dump_deploying" ELSE "dump_final"
    /\ UNCHANGED <<clock, return_code, q_loaded, q_acked, q_resp>>
    /\ UNCHANGED qFrame

\* save_task: json.dump writes the updated dict and the file is closed
QueryDump ==
    /\ worker_pc \in {"dump_deploying", "dump_final"}
    /\ task_file' = UpdateTaskStatus(q_loaded, StatusAt(worker_pc), KwargsAt(worker_pc), clock)
    /\ clock' = clock + 1
    /\ worker_pc' = IF worker_pc = "dump_deploying" THEN "spawn" ELSE "done"
    /\ q_loaded' = NoFile
    /\ UNCHANGED <<return_code, q_acked, q_resp>>
    /\ UNCHANGED qFrame

\* run_agent_deployment: the subprocess runs and process.wait() returns its code,
\* or the worker raises (no code, -1) and its except branch takes over
QueryWait ==
    /\ worker_pc = "spawn"
    /\ \E rc \in {0, 1, -1} : return_code' = rc
    /\ worker_pc' = "load_final"
    /\ UNCHANGED <<task_file, clock, q_loaded, q_acked, q_resp>>
    /\ UNCHANGED qFrame

\* a client that got the task id from /launch asks GET /status/<task_id>
QueryStatus ==
    /\ q_acked
    /\ q_resp' = GetTaskStatus(task_file)
    /\ UNCHANGED <<task_file, clock, worker_pc, return_code, q_loaded, q_acked>>
    /\ UNCHANGED qFrame

NextQuery ==
    \/ QueryLaunch
    \/ QueryLoad
    \/ QueryOpen
    \/ QueryDump
    \/ QueryWait
    \/ QueryStatus

SpecQuery == InitQuery /\ [][NextQuery]_vars

\* C22: once /launch has acknowledged the task id, every GET /status/<task_id>
\* answers with the task record, never with not-found or an error, whatever the
\* worker is writing at that moment
C22_StatusAlwaysFound ==
    [][(q_acked /\ q_resp' # q_resp) =>
          /\ q_resp' # NotFound
          /\ "id" \in DOMAIN q_resp'
          /\ q_resp'["id"] = Str(TaskId)]_vars

(***************************************************************************)
(* app.py: GET /status, the collection query.  A record of the results      *)
(* directory is kept by the fields the handler reads.  A time stamp is a    *)
(* positive number and 0 stands for a missing or null one, which the        *)
(* handler replaces by '' and which sorts before every time stamp.          *)
(***************************************************************************)
ListStatuses == {"queued", "failed"}

\* the record written for a task: started_at and completed_at follow its status
ListRecord(i, stamp, status, scraper) ==
    [id |-> i, created_at |-> stamp, status |-> status, scraper |-> scraper,
     started_at |-> IF status = "queued" THEN 0 ELSE stamp + 1,
     completed_at |-> IF status \in {"completed", "failed"} THEN stamp + 2 ELSE 0]

\* the short results directories: every combination of created_at and status
ShortLists ==
    UNION {{[i \in 1..n |-> ListRecord(i, f[i][1], f[i][2], "")] :
                f \in [1..n -> (0..MaxStamp) \X ListStatuses]} : n \in 0..MaxLen}

\* the results directory of n tasks with different creation times, in glob order
LongList(n) ==
    [i \in 1..n |-> ListRecord(i, (i * 7) % 16,
                               IF i % 3 = 0 THEN "failed" ELSE "queued",
                               IF i % 2 = 0 THEN "insights" ELSE "")]

ListInputs == ShortLists \cup {LongList(n) : n \in (MaxLen + 1)..MaxTotal}

\* the values of the parameters sort, order, page and per_page that are tried
SortParams == {"created_at", "completed_at", "status", "name"}
OrderParams == {"asc", "desc"}
PerPages == {1, 2, 10}

\* the sort keys the handler knows
KnownSortKeys == {"created_at", "started_at", "completed_at", "status"}

\* the place of a status in the order of Python strings
StatusRank(status) ==
    CASE status = "" -> 0
      [] status = "completed" -> 1
      [] status = "deploying" -> 2
      [] status = "failed" -> 3
      [] status = "queued" -> 4

\* the key functions of the three sort calls
SortKey(rec, sort_by) ==
    CASE sort_by = "created_at" -> rec.created_at
      [] sort_by = "started_at" -> rec.started_at
      [] sort_by = "completed_at" -> rec.completed_at
      [] sort_by = "status" -> StatusRank(rec.status)

\* [t for t in tasks if ...]
RECURSIVE SelectList(_, _, _)
SelectList(list, status, scraper) ==
    IF list = <<>> THEN <<>>
    ELSE LET rest == SelectList(Tail(list), status, scraper)
             keep == /\ (status = "" \/ Head(list).status = status)
                     /\ (scraper = "" \/ Head(list).scraper = scraper)
         IN IF keep THEN <<Head(list)>> \o rest ELSE rest

\* x comes no later than y in a sort by k, ascending or reversed
NotAfter(x, y, k, reverse) ==
    IF reverse THEN SortKey(x, k) >= SortKey(y, k) ELSE SortKey(x, k) <= SortKey(y, k)

\* list.sort(key=..., reverse=...): stable, records with equal keys keep their order
RECURSIVE SortList(_, _, _)
SortList(list, k, reverse) ==
    IF list = <<>> THEN <<>>
    ELSE LET n == Len(list)
             done == SortList(SubSeq(list, 1, n - 1), k, reverse)
             x == list[n]
             before == Cardinality({i \in 1..Len(done) : NotAfter(done[i], x, k, reverse)})
         IN SubSeq(done, 1, before) \o <<x>> \o SubSeq(done, before + 1, Len(done))

\* mutant: the fallback sort follows the order parameter
SortTasksByOrder(list, sort_by, order) ==
    IF sort_by \in KnownSortKeys THEN SortList(list, sort_by, order = "desc")
    ELSE SortList(list, "created_at", order = "desc")

\* the sort of get_all_tasks: the known keys follow order, any other key sorts
\* by created_at, newest first
SortTasks(list, sort_by, order) ==
    IF sort_by \in KnownSortKeys THEN SortList(list, sort_by, order = "desc")
    ELSE SortList(list, "created_at", TRUE)

\* tasks[start:end] for 0 <= start <= end
Slice(list, start, end) ==
    SubSeq(list, (IF start < Len(list) THEN start ELSE Len(list)) + 1,
                 IF end < Len(list) THEN end ELSE Len(list))

\* mutant: the number of pages is rounded down
TotalPagesFloor(total, per_page) == total \div per_page

\* total_pages = (total + per_page - 1) // per_page
TotalPages(total, per_page) == (total + per_page - 1) \div per_page

\* the answer of get_all_tasks for the sorted list
Paginate(list, page, per_page) ==
    LET total == Len(list)
        start == (page - 1) * per_page
        end == start + per_page
        total_pages == TotalPages(total, per_page)
    IN [tasks |-> Slice(list, start, end), page |-> page, per_page |-> per_page,
        total |-> total, total_pages |-> total_pages,
        has_next |-> page < total_pages, has_prev |-> page > 1]

lsFrame == <<coreVars, stVars, qVars, drvVars>>

InitList ==
    /\ CoreIdle
    /\ StageOff
    /\ QueryOff
    /\ DriverOff
    /\ ls_pc = "request"
    /\ ls_files \in ListInputs
    /\ ls_req \in [page : 1..MaxPage, per_page : PerPages, status : {"", "failed"},
                   scraper : {"", "insights"}, sort : SortParams, order : OrderParams]
    /\ ls_tasks = <<>>
    /\ ls_resp = NoPage

\* get_all_tasks: filter, sort, paginate and answer
get_all_tasks ==
    /\ ls_pc = "request"
    /\ LET tasks == SortTasks(SelectList(ls_files, ls_req.status, ls_req.scraper),
                              ls_req.sort, ls_req.order)
       IN /\ ls_tasks' = tasks
          /\ ls_resp' = Paginate(tasks, ls_req.page, ls_req.per_page)
    /\ ls_pc' = "answered"
    /\ UNCHANGED <<ls_files, ls_req>>
    /\ UNCHANGED lsFrame

NextList == get_all_tasks

SpecList == InitList /\ [][NextList]_vars

\* ceil(total / per_page), by its definition
Ceil(total, per_page) ==
    CHOOSE k \in 0..total : k * per_page >= total /\ (k = 0 \/ (k - 1) * per_page < total)

\* the pages first..last of list, one after the other
RECURSIVE PagesFrom(_, _, _, _)
PagesFrom(list, first, last, per_page) ==
    IF first > last THEN <<>>
    ELSE Paginate(list, first, per_page).tasks \o PagesFrom(list, first + 1, last, per_page)

\* C28: for page >= 1 and per_page >= 1 the page holds the records
\* (page-1)*per_page up to page*per_page of the sorted list; the pages
\* 1..total_pages together are the sorted list, nothing repeated or missing;
\* has_next is true exactly when page < ceil(total/per_page), has_prev exactly
\* when page > 1; with 15 records page 2 of 10 has 5 records, no next, a previous
C28_Pagination ==
    ls_pc = "answered" =>
        LET total == Len(ls_tasks)
            page == ls_req.page
            per_page == ls_req.per_page
            first == (page - 1) * per_page
            held == {i \in 1..total : first < i /\ i <= page * per_page}
        IN /\ ls_resp.total = total
           /\ Len(ls_resp.tasks) = Cardinality(held)
           /\ \A i \in 1..Len(ls_resp.tasks) : ls_resp.tasks[i] = ls_tasks[first + i]
           /\ PagesFrom(ls_tasks, 1, ls_resp.total_pages, per_page) = ls_tasks
           /\ ls_resp.has_next = (page < Ceil(total, per_page))
           /\ ls_resp.has_prev = (page > 1)
           /\ (total = 15 /\ page = 2 /\ per_page = 10) =>
                  Len(ls_resp.tasks) = 5 /\ ~ls_resp.has_next /\ ls_resp.has_prev

\* the spec's scenario: 15 records, page 2 of 10
C28_Witness ==
    /\ ls_pc = "answered"
    /\ Len(ls_tasks) = 15
    /\ ls_req.page = 2
    /\ ls_req.per_page = 10
    /\ Len(ls_resp.tasks) = 5
    /\ ls_resp.total_pages = 2

\* C29: for a sort key outside created_at, started_at, completed_at and status
\* the records come back in descending created_at order, whatever order says
C29_FallbackSort ==
    (ls_pc = "answered" /\ ls_req.sort \notin KnownSortKeys) =>
        /\ \A i, j \in 1..Len(ls_tasks) :
              i < j => ls_tasks[i].created_at >= ls_tasks[j].created_at
        /\ Len(ls_tasks) = Len(SelectList(ls_files, ls_req.status, ls_req.scraper))
        /\ {ls_tasks[i] : i \in 1..Len(ls_tasks)}
              = {t \in {ls_files[i] : i \in 1..Len(ls_files)} :
                    /\ (ls_req.status = "" \/ t.status = ls_req.status)
                    /\ (ls_req.scraper = "" \/ t.scraper = ls_req.scraper)}

\* an unknown key with order=asc, on records the sort had to reorder
C29_Witness ==
    /\ ls_pc = "answered"
    /\ ls_req.sort = "name"
    /\ ls_req.order = "asc"
    /\ Len(ls_tasks) >= 3
    /\ ls_tasks # SelectList(ls_files, ls_req.status, ls_req.scraper)
    /\ ls_tasks[1].created_at > ls_tasks[Len(ls_tasks)].created_at

(***************************************************************************)
(* deploy_ai_agent.py: the ways monitor_instance_and_get_results ends.      *)
(***************************************************************************)
\* the run of the monitor is over: it returned, or the process ended
MonitorEnded == proc_pc \in {"returned", "exited"}

\* what the monitor hands back: a fetched result object, a synthesized error
\* outcome or the timeout outcome
MonitorOutcomes ==
    {Fetched(st, path) : st \in {"success", "error"}, path \in {"running", "terminated"}}
        \cup {NoUploadResult, S3ErrorResult, TimeoutResult}

\* C30: every run of the monitor ends by returning exactly one of a fetched
\* result object, a synthesized outcome with status error and the timeout
\* outcome, and the timeout outcome only once the deadline has passed
C30_MonitorOutcome ==
    /\ MonitorEnded => mon_result \in MonitorOutcomes
    /\ mon_result = TimeoutResult => elapsed >= TimeoutUnits

\* C31: of two consecutive poll cycles with state running exactly one performs
\* the probe of the result object
C31_EveryOtherCycle ==
    [][(proc_pc = "probe" /\ last_probe # "none" /\ last_probe' # "none") =>
          last_probe' # last_probe]_vars

C33_WritesDoNotOverlap ==
    [][(worker_pc' # worker_pc /\ task_file' # task_file) =>
          proc_pc \in {"none", "exited"}]_vars

\* C35: the build poll loop goes on to the rest of the pipeline only on
\* SUCCEEDED; on FAILED, FAULT, STOPPED or TIMED_OUT the process exits with
\* code 1; on any other status it sleeps 30 seconds and polls again, however
\* many polls were made; a poll that raises ends the process with code 1
C35_BuildPollLoop ==
    [][proc_pc = "poll_build" =>
         /\ proc_pc' = "build_cleanup" => build_status = "SUCCEEDED"
         /\ (build_polls' # build_polls /\ build_status \in {"FAILED", "FAULT", "STOPPED", "TIMED_OUT"})
               => (proc_pc' = "exited" /\ return_code' = 1)
         /\ (build_polls' # build_polls
                /\ build_status \notin {"SUCCEEDED", "FAILED", "FAULT", "STOPPED", "TIMED_OUT"})
               => /\ proc_pc' = "poll_build"
                  /\ build_polls'.count = build_polls.count + 1
                  /\ build_polls'.slept = build_polls.slept + BuildPollSleep
         /\ proc_pc' \notin {"poll_build", "build_cleanup"}
               => /\ proc_pc' = "exited"
                  /\ return_code' = 1
                  /\ exit_cause' \in {"build_failed", "poll_build"}
                  /\ exit_cause' = "build_failed" => build_status # "SUCCEEDED"]_vars

\* the build is still in progress after the most polls that are followed
C35_Witness ==
    /\ proc_pc = "poll_build"
    /\ build_status = "IN_PROGRESS"
    /\ build_polls.count = MaxPolls
    /\ build_polls.slept = MaxPolls * BuildPollSleep

(***************************************************************************)
(* Progress of a task.  The worker thread keeps running and the subprocess  *)
(* it started keeps taking steps until it exits: no step that can be taken  *)
(* is put off for ever.                                                     *)
(***************************************************************************)
SpecProgress == Init /\ [][Next]_vars /\ WF_vars(Next)

\* the status of the record is completed or failed
Terminal == StatusOf(task_file) \in {"completed", "failed"}

\* the worker ended in its except branch: no return code was recorded
EndedByException == worker_pc = "done" /\ "return_code" \notin DOMAIN task_file

C36_ProfileLinked ==
    \A t \in Tasks : sh_pc[t] = "returned" => sh_profile = "linked"

\* C37: when main of deploy_lambda has ended, every resource the run created,
\* the ECR repository, the IAM role and the Lambda function, has had its
\* deletion attempted by cleanup_resources, also when the run failed part-way
C37_CleanupCovers ==
    lam_pc = "done" => lam_created \subseteq lam_attempted

(***************************************************************************)
(* scripts/automation_task.py: the main block of the script the instance   *)
(* runs. It reads the prompt, runs run_task, writes the result to          *)
(* /tmp/result.json, uploads it to the results bucket and exits.           *)
(***************************************************************************)
drvFrame == <<coreVars, stVars, qVars, lsVars>>

\* the values of --task-id, --instance and --scraper; "None" when not given
TaskIdArgs == {"None", "task-1", "task-2"}
InstanceArgs == {"local-instance", "ai-executor-1000"}
ScraperArgs == {"None", "insights", "missing"}

\* task_id = args.task_id or instance_name
TaskIdOf(args) == IF args.task_id = "None" THEN args.instance ELSE args.task_id

\* result_key = f"{task_id}-result.json"
ResultKey(task_id) == <<task_id, "-result.json">>

\* the exit code of the script: 0 whatever the result is
ExitCodeZero(res) == 0

\* the exit code of the script: 1 when the result's status is error, 0 otherwise
ExitCode(res) == IF res # NoDriverResult /\ res.status = "error" THEN 1 ELSE 0

\* the steps of run_task up to agent.run, in their order; each can raise
TaskSteps == <<"ChatGoogle", "browser_start", "agent_run">>

InitDriver ==
    /\ CoreIdle
    /\ StageOff
    /\ QueryOff
    /\ ListOff
    /\ drv_pc = "read_prompt"
    /\ drv_args \in [task_id : TaskIdArgs, instance : InstanceArgs, scraper : ScraperArgs]
    /\ result = NoDriverResult
    /\ drv_attempts = 0
    /\ drv_put = <<>>
    /\ drv_exit = -1

\* /tmp/task.txt is read; a failure exits with code 1 before anything else
ReadPrompt ==
    /\ drv_pc = "read_prompt"
    /\ \E ok \in BOOLEAN :
          IF ok THEN drv_pc' = TaskSteps[1] /\ drv_exit' = drv_exit
                ELSE drv_pc' = "exited" /\ drv_exit' = 1
    /\ UNCHANGED <<drv_args, result, drv_attempts, drv_put>>
    /\ UNCHANGED drvFrame

\* run_task up to agent.run: a step returns, or raises and run_task returns
\* the error result from its except branch
RunTaskStep ==
    /\ \E i \in 1..Len(TaskSteps) :
          /\ drv_pc = TaskSteps[i]
          /\ \E raised \in BOOLEAN :
                IF raised
                THEN /\ result' = [status |-> "error", final_url |-> "",
                                   error |-> TaskSteps[i]]
                     /\ drv_pc' = "save"
                ELSE /\ result' = result
                     /\ drv_pc' = IF i < Len(TaskSteps) THEN TaskSteps[i + 1]
                                  ELSE "get_current_page_url"
    /\ UNCHANGED <<drv_args, drv_attempts, drv_put, drv_exit>>
    /\ UNCHANGED drvFrame

\* the rest of run_task: the page url, "Unknown" when it cannot be read, the
\* scraper, whose failures are logged, and the success result
RunTaskReturns ==
    /\ drv_pc = "get_current_page_url"
    /\ \E url \in {"Unknown", "url"}, scraper_failed \in BOOLEAN :
          /\ (drv_args.scraper = "missing" => scraper_failed)
          /\ (drv_args.scraper = "None" => ~scraper_failed)
          /\ result' = [status |-> "success", final_url |-> url, error |-> ""]
    /\ drv_pc' = "save"
    /\ UNCHANGED <<drv_args, drv_attempts, drv_put, drv_exit>>
    /\ UNCHANGED drvFrame

\* asyncio.run itself raises an Exception: the except branch of the main block
\* builds the error result
TopLevelError ==
    /\ drv_pc \in {TaskSteps[1], "get_current_page_url"}
    /\ result' = [status |-> "error", final_url |-> "", error |-> "top_level_error"]
    /\ drv_pc' = "save"
    /\ UNCHANGED <<drv_args, drv_attempts, drv_put, drv_exit>>
    /\ UNCHANGED drvFrame

\* the result is written to /tmp/result.json and the upload block is entered
SaveResult ==
    /\ drv_pc = "save"
    /\ drv_attempts' = drv_attempts + 1
    /\ drv_pc' = "get_caller_identity"
    /\ UNCHANGED <<drv_args, result, drv_put, drv_exit>>
    /\ UNCHANGED drvFrame

\* the account id is asked for; a failure is logged and the upload block left
GetCallerIdentity ==
    /\ drv_pc = "get_caller_identity"
    /\ \E ok \in BOOLEAN : drv_pc' = IF ok THEN "upload_file" ELSE "exit"
    /\ UNCHANGED <<drv_args, result, drv_attempts, drv_put, drv_exit>>
    /\ UNCHANGED drvFrame

\* s3.upload_file under result_key; a failure is logged
UploadFile ==
    /\ drv_pc = "upload_file"
    /\ \E ok \in BOOLEAN :
          drv_put' = Append(drv_put, [key |-> ResultKey(TaskIdOf(drv_args)), ok |-> ok])
    /\ drv_pc' = "exit"
    /\ UNCHANGED <<drv_args, result, drv_attempts, drv_exit>>
    /\ UNCHANGED drvFrame

\* sys.exit with the code of the result
DriverExit ==
    /\ drv_pc = "exit"
    /\ drv_exit' = ExitCode(result)
    /\ drv_pc' = "exited"
    /\ UNCHANGED <<drv_args, result, drv_attempts, drv_put>>
    /\ UNCHANGED drvFrame

NextDriver ==
    \/ ReadPrompt
    \/ RunTaskStep
    \/ RunTaskReturns
    \/ TopLevelError
    \/ SaveResult
    \/ GetCallerIdentity
    \/ UploadFile
    \/ DriverExit

SpecDriver == InitDriver /\ [][NextDriver]_vars

\* the script has exited after it had read its prompt
ExitedAfterPrompt == drv_pc = "exited" /\ result # NoDriverResult

\* C38: once automation_task.py has read its prompt and exits after a task
\* success, a task exception or a top-level exception, it has entered the upload
\* of the result exactly once, as the last thing before exiting, every
\* upload_file call used the key <task_id>-result.json and there is at most one,
\* failed or not, and the exit code is 1 exactly when the result's status is
\* error and 0 otherwise
C38_OneUploadThenExit ==
    /\ drv_pc \in {"exit", "exited"} =>
          /\ result # NoDriverResult => drv_attempts = 1
          /\ Len(drv_put) <= 1
          /\ \A i \in 1..Len(drv_put) : drv_put[i].key = ResultKey(TaskIdOf(drv_args))
    /\ drv_pc \notin {"exit", "exited", "get_caller_identity", "upload_file"} =>
          drv_attempts = 0 /\ drv_put = <<>>
    /\ ExitedAfterPrompt => (drv_exit = 1 <=> result.status = "error")
    /\ ExitedAfterPrompt => drv_exit \in {0, 1}

\* the task succeeded, the one upload of the result failed and the script
\* exited with code 0; no --task-id was given, so the key is made of the
\* instance name
C38_Witness ==
    /\ drv_pc = "exited"
    /\ result.status = "success"
    /\ drv_args.task_id = "None"
    /\ drv_put = <<[key |-> ResultKey(drv_args.instance), ok |-> FALSE]>>
    /\ drv_attempts = 1
    /\ drv_exit = 0

\* C39: the log cursor last_console_length never decreases; while the log
\* object has only been appended to, the cursor is the length of the longest
\* content fetched so far in state running, and the suffixes taken by the polls,
\* joined in order, are the log content up to the cursor
C39_CursorMonotone ==
    /\ [][last_console_length' >= last_console_length]_vars
    /\ [](log_seen.append_only =>
             /\ last_console_length = log_seen.longest
             /\ log_seen.new_logs = SubSeq(log_object, 1, last_console_length))

\* two polls have each taken a suffix of a log that was only appended to, and
\* the log has grown again since
C39_Witness ==
    /\ log_seen.append_only
    /\ last_console_length >= 2
    /\ Len(log_object) > last_console_length
    /\ Len(printed) >= 2
    /\ log_seen.new_logs = SubSeq(log_object, 1, last_console_length)

====
